---- MODULE Spec2Model ----


(***************************************************************************)
(* Identity resolution and caching layer of slack_mcp_server              *)
(* (provider.py) and the channel-creation tool built on it (server.py).   *)
(*                                                                         *)
(* Python strings are modelled as sequences of one-character strings, so   *)
(* that startswith, strip, slicing and concatenation are computed.  A      *)
(* multi-character element is an opaque piece of text that no operation    *)
(* of the program looks into.                                              *)
(***************************************************************************)
EXTENDS Integers, Sequences, FiniteSets, TLC

VARIABLES
    users,           \* SlackProvider._users          id -> User
    users_inv,       \* SlackProvider._users_inv      name -> id
    channels,        \* SlackProvider._channels       id -> Channel
    channels_inv,    \* SlackProvider._channels_inv   name -> id
    users_ready,     \* SlackProvider._users_ready
    channels_ready,  \* SlackProvider._channels_ready
    users_cache,     \* content of the file at users_cache_path
    channels_cache,  \* content of the file at channels_cache_path
    slack,           \* the remote workspace: its conversations
    last             \* the last call: operation, inputs, remote answers, outcome

vars == <<users, users_inv, channels, channels_inv, users_ready,
          channels_ready, users_cache, channels_cache, slack, last>>

(***************************************************************************)
(* Bounds                                                                  *)
(***************************************************************************)
MaxUsers == 2
MaxPageSize == 2
MaxNamed == 2
MaxErrorAt == 2

(***************************************************************************)
(* Strings                                                                 *)
(***************************************************************************)
None == <<"<None>">>

Digit == <<"1", "2", "3", "4", "5">>

StartsWith(s, p) == Len(s) >= Len(p) /\ SubSeq(s, 1, Len(p)) = p

RECURSIVE LStrip(_)
LStrip(s) == IF s # <<>> /\ Head(s) = " " THEN LStrip(Tail(s)) ELSE s

RECURSIVE RStripChar(_, _)
RStripChar(s, c) ==
    IF s # <<>> /\ s[Len(s)] = c THEN RStripChar(SubSeq(s, 1, Len(s) - 1), c) ELSE s

Strip(s) == RStripChar(LStrip(s), " ")

(***************************************************************************)
(* Dictionaries                                                            *)
(***************************************************************************)
EmptyDict == [k \in {} |-> None]

Put(d, k, v) == [x \in (DOMAIN d) \cup {k} |-> IF x = k THEN v ELSE d[x]]

Get(d, k) == IF k \in DOMAIN d THEN d[k] ELSE None

(***************************************************************************)
(* Users                                                                   *)
(***************************************************************************)
UserId(i) == <<"U", Digit[i]>>

UserIds == {UserId(i) : i \in 1..MaxUsers}

Handles == {<<"a", "l">>, <<"U", "b">>}

RealNames == {<<"Al">>}

User(id, name, real_name) == [id |-> id, name |-> name, real_name |-> real_name]

\* the members the remote lists: distinct ids, any order, any handles
RECURSIVE UserListsOver(_)
UserListsOver(ids) ==
    {<<>>} \cup
    UNION {{<<User(i, h, r)>> \o rest : h \in Handles, r \in RealNames,
                                        rest \in UserListsOver(ids \ {i})} : i \in ids}

UserDirectories == UserListsOver(UserIds)

RECURSIVE Pages(_, _)
Pages(seq, n) ==
    IF Len(seq) <= n THEN <<seq>>
    ELSE <<SubSeq(seq, 1, n)>> \o Pages(SubSeq(seq, n + 1, Len(seq)), n)

RECURSIVE Flatten(_)
Flatten(pages) == IF pages = <<>> THEN <<>> ELSE Head(pages) \o Flatten(Tail(pages))

\* answers of the remote to users_list: an error, or the directory in pages
UsersListAnswers ==
    {[error |-> e, pages |-> Pages(d, n)] :
        e \in BOOLEAN, d \in UserDirectories, n \in 1..MaxPageSize}

\* what a cache file may hold: nothing (no file), text that is not JSON, or
\* a JSON value: an array, an object (of which a loop sees the keys), a number
AbsentFile == [kind |-> "absent"]
JsonArray(recs) == [kind |-> "array", recs |-> recs]
NotJson == [kind |-> "invalid"]
JsonNumber == [kind |-> "number"]
JsonObject(keys) == [kind |-> "object", keys |-> keys]

\* an element of a JSON array that is not an object is tagged by the field
\* json, which no object of the model has
JsonNonObject == [json |-> "number"]
IsJsonObject(value) == "json" \notin DOMAIN value

\* the loop of refresh_users over the records of the cache file: stops with
\* a KeyError at the first object without "id" or "name", with a TypeError
\* at the first element that cannot be subscripted by a key
RECURSIVE load_users(_, _, _)
load_users(us, inv, recs) ==
    IF recs = <<>> THEN [users |-> us, inv |-> inv, ok |-> TRUE, error |-> "none"]
    ELSE LET u == Head(recs) IN
         IF ~ IsJsonObject(u)
         THEN [users |-> us, inv |-> inv, ok |-> FALSE, error |-> "TypeError"]
         ELSE IF ~ ({"id", "name"} \subseteq DOMAIN u)
         THEN [users |-> us, inv |-> inv, ok |-> FALSE, error |-> "KeyError"]
         ELSE LET user == User(u.id, u.name,
                               IF "real_name" \in DOMAIN u THEN u.real_name ELSE <<>>)
              IN load_users(Put(us, user.id, user), Put(inv, user.name, user.id),
                            Tail(recs))

\* the loop over the members with a reverse index that keeps the first
\* user written under a handle
RECURSIVE store_users_first(_, _, _)
store_users_first(us, inv, members) ==
    IF members = <<>> THEN [users |-> us, inv |-> inv]
    ELSE LET u == Head(members)
             user == User(u.id, u.name, u.real_name)
         IN store_users_first(Put(us, user.id, user),
                              IF user.name \in DOMAIN inv THEN inv
                              ELSE Put(inv, user.name, user.id),
                              Tail(members))

\* the loop of refresh_users over the members of the remote answer
RECURSIVE store_users(_, _, _)
store_users(us, inv, members) ==
    IF members = <<>> THEN [users |-> us, inv |-> inv]
    ELSE LET u == Head(members)
             user == User(u.id, u.name, u.real_name)
         IN store_users(Put(us, user.id, user), Put(inv, user.name, user.id),
                        Tail(members))

\* the try block of refresh_users on the cache file: json.load, then the loop
read_users_cache(file, us, inv) ==
    IF file.kind = "array" THEN load_users(us, inv, file.recs)
    ELSE IF file.kind = "object"
    THEN [users |-> us, inv |-> inv, ok |-> file.keys = <<>>,
          error |-> IF file.keys = <<>> THEN "none" ELSE "TypeError"]
    ELSE IF file.kind = "number"
    THEN [users |-> us, inv |-> inv, ok |-> FALSE, error |-> "TypeError"]
    ELSE IF file.kind = "invalid"
    THEN [users |-> us, inv |-> inv, ok |-> FALSE, error |-> "JSONDecodeError"]
    ELSE [users |-> us, inv |-> inv, ok |-> FALSE, error |-> "none"]

\* a cache file that exists and is not a JSON array of objects that have
\* "id" and "name"
Corrupt(file) ==
    /\ file.kind # "absent"
    /\ file.kind = "array" =>
          \E i \in 1..Len(file.recs) :
              \/ ~ IsJsonObject(file.recs[i])
              \/ ~ ({"id", "name"} \subseteq DOMAIN file.recs[i])

\* a refresh that takes the flag down when it is called again
refresh_users_unready(answer) ==
    /\ users_ready' = ~ users_ready
    /\ last' = [op |-> "refresh_users", corrupt |-> Corrupt(users_cache),
                path |-> "fetch", raised |-> TRUE]
    /\ UNCHANGED <<users, users_inv, channels, channels_inv, channels_ready,
                   users_cache, channels_cache, slack>>

refresh_users(answer) ==
    /\ UNCHANGED <<channels, channels_inv, channels_ready, channels_cache, slack>>
    /\ \E loaded \in {read_users_cache(users_cache, users, users_inv)} :
       LET members == Head(answer.pages)
           stored == store_users(loaded.users, loaded.inv, members)
           call == [op |-> "refresh_users", corrupt |-> Corrupt(users_cache)]
       IN  IF users_cache.kind # "absent" /\ loaded.ok
           THEN /\ users' = loaded.users
                /\ users_inv' = loaded.inv
                /\ users_ready' = TRUE
                /\ last' = call @@ [path |-> "disk", raised |-> FALSE]
                /\ UNCHANGED users_cache
           ELSE IF loaded.error = "TypeError"
           \* only json.JSONDecodeError and KeyError are caught
           THEN /\ users' = loaded.users
                /\ users_inv' = loaded.inv
                /\ last' = call @@ [path |-> "disk", raised |-> TRUE]
                /\ UNCHANGED <<users_ready, users_cache>>
           ELSE IF answer.error
           THEN /\ users' = loaded.users
                /\ users_inv' = loaded.inv
                /\ last' = call @@ [path |-> "fetch", raised |-> TRUE]
                /\ UNCHANGED <<users_ready, users_cache>>
           ELSE /\ users' = stored.users
                /\ users_inv' = stored.inv
                /\ users_cache' = JsonArray(members)
                /\ users_ready' = TRUE
                /\ last' = call @@ [path |-> "fetch", raised |-> FALSE,
                                    listed |-> Flatten(answer.pages)]

\* resolve_user without the removal of the leading "@"
resolve_user_keeping_at(user_ref) ==
    LET ref == Strip(user_ref) IN
    IF StartsWith(ref, <<"U">>)
    THEN IF ref \in DOMAIN users THEN ref ELSE None
    ELSE IF StartsWith(ref, <<"<", "@">>)
    THEN LET id == RStripChar(SubSeq(ref, 3, Len(ref)), ">")
         IN IF id \in DOMAIN users THEN id ELSE None
    ELSE Get(users_inv, ref)

resolve_user(user_ref) ==
    LET ref == Strip(user_ref) IN
    IF StartsWith(ref, <<"U">>)
    THEN IF ref \in DOMAIN users THEN ref ELSE None
    ELSE IF StartsWith(ref, <<"<", "@">>)
    THEN LET id == RStripChar(SubSeq(ref, 3, Len(ref)), ">")
         IN IF id \in DOMAIN users THEN id ELSE None
    ELSE IF StartsWith(ref, <<"@">>)
    THEN Get(users_inv, Tail(ref))
    ELSE Get(users_inv, ref)

(***************************************************************************)
(* Channels                                                                *)
(***************************************************************************)
ALL_CHANNEL_TYPES == <<"mpim", "im", "public_channel", "private_channel">>

NamedId(i) == <<"C", Digit[i]>>

NamedIds == {NamedId(i) : i \in 1..MaxNamed}

ImId == <<"D", "1">>

MpimId == <<"G", "1">>

\* the order in which the remote lists conversations
ListingOrder == [i \in 1..MaxNamed |-> NamedId(i)] \o <<ImId, MpimId>>

ChannelNames == {<<"x">>, <<"y">>}

MpimName == <<"m", "p", "d", "m">>

MCP_MARKER == <<"[managed by slack-mcp]">>

BotUser == <<"U", "B">>

HumanUser == <<"U", "H">>

OtherUser == <<"U", "O">>

RECURSIVE Join(_, _)
Join(strs, sep) ==
    IF strs = <<>> THEN <<>>
    ELSE IF Len(strs) = 1 THEN Head(strs)
    ELSE Head(strs) \o sep \o Join(Tail(strs), sep)

Field(c, f, default) == IF f \in DOMAIN c THEN c[f] ELSE default

Channel(id, name, topic, purpose, member_count, is_im, is_mpim, is_private, user, members) ==
    [id |-> id, name |-> name, topic |-> topic, purpose |-> purpose,
     member_count |-> member_count, is_im |-> is_im, is_mpim |-> is_mpim,
     is_private |-> is_private, user |-> user, members |-> members]

map_channel(c, us) ==
    LET is_im == Field(c, "is_im", FALSE)
        is_mpim == Field(c, "is_mpim", FALSE)
        is_private == Field(c, "is_private", FALSE)
        name == Field(c, "name", <<>>)
        name_normalized == Field(c, "name_normalized", name)
        topic == Field(c, "topic", <<>>)
        purpose == Field(c, "purpose", <<>>)
        member_count == Field(c, "num_members", 0)
        user_id == Field(c, "user", <<>>)
        members == Field(c, "members", <<>>)
        user_names == [i \in 1..Len(members) |->
                          IF members[i] \in DOMAIN us
                          THEN us[members[i]].real_name ELSE members[i]]
    IN  IF is_im
        THEN IF user_id \in DOMAIN us
             THEN Channel(c.id, <<"@">> \o us[user_id].name, <<>>,
                          <<"DM with ">> \o us[user_id].real_name,
                          2, is_im, is_mpim, is_private, user_id, members)
             ELSE Channel(c.id, <<"@">> \o user_id, <<>>, <<"DM with ">> \o user_id,
                          2, is_im, is_mpim, is_private, user_id, members)
        ELSE IF is_mpim
        THEN Channel(c.id, <<"@">> \o name_normalized, <<>>,
                     <<"Group DM with ">> \o Join(user_names, <<",", " ">>),
                     IF members # <<>> THEN Len(members) ELSE member_count,
                     is_im, is_mpim, is_private, user_id, members)
        ELSE Channel(c.id, <<"#">> \o name_normalized, topic, purpose, member_count,
                     is_im, is_mpim, is_private, user_id, members)

remap_im_channel(channel, us) ==
    IF channel.user \in DOMAIN us
    THEN [channel EXCEPT !.name = <<"@">> \o us[channel.user].name,
                         !.purpose = <<"DM with ">> \o us[channel.user].real_name]
    ELSE channel

\* the record refresh_channels writes to the cache file for a channel
ChannelRecord(channel) ==
    [id |-> channel.id, name |-> channel.name, topic |-> channel.topic,
     purpose |-> channel.purpose, memberCount |-> channel.member_count,
     im |-> channel.is_im, mpim |-> channel.is_mpim, private |-> channel.is_private,
     user |-> channel.user, members |-> channel.members]

\* the loop of refresh_channels over the records of the cache file
RECURSIVE load_channels(_, _, _, _)
load_channels(chs, inv, recs, us) ==
    IF recs = <<>> THEN [channels |-> chs, inv |-> inv, ok |-> TRUE, error |-> "none"]
    ELSE LET c == Head(recs) IN
         IF ~ IsJsonObject(c)
         THEN [channels |-> chs, inv |-> inv, ok |-> FALSE, error |-> "TypeError"]
         ELSE IF ~ ({"id", "name"} \subseteq DOMAIN c)
         THEN [channels |-> chs, inv |-> inv, ok |-> FALSE, error |-> "KeyError"]
         ELSE LET read == Channel(c.id, c.name, Field(c, "topic", <<>>),
                                  Field(c, "purpose", <<>>), Field(c, "memberCount", 0),
                                  Field(c, "im", FALSE), Field(c, "mpim", FALSE),
                                  Field(c, "private", FALSE), Field(c, "user", <<>>),
                                  Field(c, "members", <<>>))
                  channel == IF read.is_im /\ read.user # <<>>
                             THEN remap_im_channel(read, us) ELSE read
              IN load_channels(Put(chs, channel.id, channel),
                               Put(inv, channel.name, channel.id), Tail(recs), us)

\* the try block of refresh_channels on the cache file: json.load, then the loop
read_channels_cache(file, chs, inv, us) ==
    IF file.kind = "array" THEN load_channels(chs, inv, file.recs, us)
    ELSE IF file.kind = "object"
    THEN [channels |-> chs, inv |-> inv, ok |-> file.keys = <<>>,
          error |-> IF file.keys = <<>> THEN "none" ELSE "TypeError"]
    ELSE IF file.kind = "number"
    THEN [channels |-> chs, inv |-> inv, ok |-> FALSE, error |-> "TypeError"]
    ELSE IF file.kind = "invalid"
    THEN [channels |-> chs, inv |-> inv, ok |-> FALSE, error |-> "JSONDecodeError"]
    ELSE [channels |-> chs, inv |-> inv, ok |-> FALSE, error |-> "none"]

\* the type under which conversations_list reports a conversation
TypeOf(c) ==
    IF c.is_im THEN "im"
    ELSE IF c.is_mpim THEN "mpim"
    ELSE IF c.is_private THEN "private_channel"
    ELSE "public_channel"

\* conversations_list(types=channel_type, exclude_archived=True), all pages
Listing(ws, channel_type) ==
    LET ids == SelectSeq(ListingOrder,
                         LAMBDA id : /\ id \in DOMAIN ws
                                     /\ ~ ws[id].is_archived
                                     /\ TypeOf(ws[id]) = channel_type)
    IN [i \in 1..Len(ids) |-> ws[ids[i]]]

\* _fetch_channels_by_type that returns nothing once a request has raised
fetch_channels_by_type_or_nothing(ws, channel_type, page_size, error_at, us) ==
    LET pages == Pages(Listing(ws, channel_type), page_size)
        raw == IF error_at = 0 \/ error_at > Len(pages) THEN Flatten(pages) ELSE <<>>
    IN [i \in 1..Len(raw) |-> map_channel(raw[i], us)]

\* _fetch_channels_by_type: the pages answered before the request numbered
\* error_at raises (0: no request raises), each conversation mapped
fetch_channels_by_type(ws, channel_type, page_size, error_at, us) ==
    LET pages == Pages(Listing(ws, channel_type), page_size)
        answered == IF error_at = 0 \/ error_at > Len(pages)
                    THEN pages ELSE SubSeq(pages, 1, error_at - 1)
        raw == Flatten(answered)
    IN [i \in 1..Len(raw) |-> map_channel(raw[i], us)]

\* the loop of refresh_channels over the fetched channels
RECURSIVE store_channels(_, _, _)
store_channels(chs, inv, fetched) ==
    IF fetched = <<>> THEN [channels |-> chs, inv |-> inv]
    ELSE LET channel == Head(fetched)
         IN store_channels(Put(chs, channel.id, channel),
                           Put(inv, channel.name, channel.id), Tail(fetched))

\* which request of each type raises: errors[t] = 0 when none does
ErrorPlans == [{"mpim", "im", "public_channel", "private_channel"} -> 0..MaxErrorAt]

\* the state of the provider after refresh_channels(force), given the page
\* size and the errors of the remote
RefreshedChannels(ws, force, page_size, errors) ==
    LET loaded ==
            IF ~ force
            THEN read_channels_cache(channels_cache, channels, channels_inv, users)
            ELSE [channels |-> channels, inv |-> channels_inv, ok |-> FALSE,
                  error |-> "none"]
        fetched ==
            Flatten([i \in 1..Len(ALL_CHANNEL_TYPES) |->
                        fetch_channels_by_type(ws, ALL_CHANNEL_TYPES[i], page_size,
                                               errors[ALL_CHANNEL_TYPES[i]], users)])
        stored == store_channels(loaded.channels, loaded.inv, fetched)
    IN  IF ~ force /\ channels_cache.kind # "absent" /\ loaded.ok
        THEN [channels |-> loaded.channels, inv |-> loaded.inv,
              cache |-> channels_cache, path |-> "disk", raised |-> FALSE]
        ELSE IF loaded.error = "TypeError"
        \* only json.JSONDecodeError and KeyError are caught
        THEN [channels |-> loaded.channels, inv |-> loaded.inv,
              cache |-> channels_cache, path |-> "disk", raised |-> TRUE]
        ELSE [channels |-> stored.channels, inv |-> stored.inv,
              cache |-> JsonArray([i \in 1..Len(fetched) |-> ChannelRecord(fetched[i])]),
              path |-> "fetch", raised |-> FALSE]

\* the requests conversations_list needs to list n conversations
Requests(n, page_size) ==
    IF n = 0 THEN 1 ELSE (n + page_size - 1) \div page_size

\* whether listing the type raises, and how many conversations were answered
\* before it did
Raises(ws, channel_type, page_size, error_at) ==
    error_at # 0 /\ error_at <= Requests(Len(Listing(ws, channel_type)), page_size)

AnsweredCount(ws, channel_type, page_size, error_at) ==
    IF Raises(ws, channel_type, page_size, error_at)
    THEN (error_at - 1) * page_size
    ELSE Len(Listing(ws, channel_type))

refresh_channels(force, page_size, errors) ==
    \* an error planned for a request that is never made is no error
    /\ \A t \in DOMAIN errors :
          errors[t] = 0 \/ Raises(slack, t, page_size, errors[t])
    /\ UNCHANGED <<users, users_inv, users_ready, users_cache, slack>>
    /\ \E after \in {RefreshedChannels(slack, force, page_size, errors)} :
          /\ channels' = after.channels
          /\ channels_inv' = after.inv
          /\ channels_cache' = after.cache
          /\ channels_ready' = (channels_ready \/ ~ after.raised)
          /\ LET call == [op |-> "refresh_channels", path |-> after.path,
                           raised |-> after.raised,
                           corrupt |-> ~ force /\ Corrupt(channels_cache)]
             IN last' = IF after.path = "disk" THEN call
                        ELSE call @@
                             [answered |-> [t \in DOMAIN errors |->
                                              AnsweredCount(slack, t, page_size, errors[t])],
                              failed |-> {t \in DOMAIN errors : errors[t] # 0}]

\* resolve_channel that trusts whatever has the shape of an ID
resolve_channel_trusting(channel_ref) ==
    LET ref == Strip(channel_ref) IN
    IF StartsWith(ref, <<"C">>) \/ StartsWith(ref, <<"D">>) \/ StartsWith(ref, <<"G">>)
    THEN ref
    ELSE IF StartsWith(ref, <<"#">>) \/ StartsWith(ref, <<"@">>)
    THEN Get(channels_inv, ref)
    ELSE None

resolve_channel(channel_ref) ==
    LET ref == Strip(channel_ref) IN
    IF StartsWith(ref, <<"C">>) \/ StartsWith(ref, <<"D">>) \/ StartsWith(ref, <<"G">>)
    THEN IF ref \in DOMAIN channels THEN ref ELSE None
    ELSE IF StartsWith(ref, <<"#">>) \/ StartsWith(ref, <<"@">>)
    THEN Get(channels_inv, ref)
    ELSE None

(***************************************************************************)
(* Channel creation                                                        *)
(***************************************************************************)
NameChars ==
    {"a", "b", "c", "d", "e", "f", "g", "h", "i", "j", "k", "l", "m", "n", "o", "p",
     "q", "r", "s", "t", "u", "v", "w", "x", "y", "z", "0", "1", "2", "3", "4", "5",
     "6", "7", "8", "9", "_", "-"}

MaxNameLen == 80

\* the identity behind each client; auth_test stores the bot's as user_id
ClientUser(token_type) == IF token_type = "bot" THEN BotUser ELSE HumanUser

user_id == ClientUser("bot")

Contains(text, piece) == \E i \in 1..Len(text) : <<text[i]>> = piece

NamedConversation(id, name, is_private, creator, purpose) ==
    [id |-> id, name |-> name, is_im |-> FALSE, is_mpim |-> FALSE,
     is_private |-> is_private, is_archived |-> FALSE, creator |-> creator,
     purpose |-> purpose, topic |-> <<>>, num_members |-> 1]

ImConversation(id, user) ==
    [id |-> id, is_im |-> TRUE, is_mpim |-> FALSE, is_private |-> FALSE,
     is_archived |-> FALSE, user |-> user]

MpimConversation(id, members) ==
    [id |-> id, name |-> MpimName, is_im |-> FALSE, is_mpim |-> TRUE,
     is_private |-> TRUE, is_archived |-> FALSE, creator |-> OtherUser,
     members |-> members, num_members |-> 3]

\* check_channel_ownership that looks at the marker alone
check_channel_ownership_by_marker(conversation) ==
    Contains(Field(conversation, "purpose", <<>>), MCP_MARKER)

\* check_channel_ownership once conversations_info has answered
check_channel_ownership(conversation) ==
    /\ Field(conversation, "creator", <<>>) = user_id
    /\ Contains(Field(conversation, "purpose", <<>>), MCP_MARKER)

channel_info(channel_id, name, is_private, creator, purpose, is_new) ==
    [channelID |-> channel_id, name |-> name, is_private |-> is_private,
     creator |-> creator, purpose |-> purpose, is_new |-> is_new]

\* the lookup of an existing channel and the ownership check on it
existing_channel(ws, name, channel_id, info_fails) ==
    IF info_fails \/ channel_id \notin DOMAIN ws
    THEN [outcome |-> "ownership_check_failed"]
    ELSE IF check_channel_ownership(ws[channel_id])
    THEN [outcome |-> "returned",
          info |-> channel_info(channel_id, name,
                                Field(ws[channel_id], "is_private", FALSE),
                                Field(ws[channel_id], "creator", <<>>),
                                Field(ws[channel_id], "purpose", <<>>), FALSE)]
    ELSE [outcome |-> "not_managed"]

NameTaken(ws, name) ==
    \E id \in DOMAIN ws : Field(ws[id], "name", <<>>) = name /\ ~ ws[id].is_im

FreeIds(ws) == {i \in 1..MaxNamed : NamedId(i) \notin DOMAIN ws}

Faults == [info : BOOLEAN, create : BOOLEAN, set_purpose : BOOLEAN]

NoFaults == [info |-> FALSE, create |-> FALSE, set_purpose |-> FALSE]

\* what a call keeps of the call before it
Previous(call) ==
    IF call.op = "channels_create"
    THEN [op |-> call.op, name |-> call.name, token_type |-> call.token_type,
          outcome |-> call.outcome, clean |-> call.clean, requests |-> call.requests,
          created |-> IF call.outcome = "returned" /\ call.info.is_new
                      THEN call.info.channelID ELSE None]
    ELSE [op |-> call.op]

NoErrors == [t \in {"mpim", "im", "public_channel", "private_channel"} |-> 0]

channels_create(name, is_private, description, token_type, enabled, faults, page_size, errors) ==
    LET cached_channel_id == Get(channels_inv, <<"#">> \o name)
        creator_id == ClientUser(token_type)
        purpose_string == IF description # <<>>
                          THEN description \o <<" ">> \o MCP_MARKER ELSE MCP_MARKER
        channel_id == NamedId(CHOOSE i \in FreeIds(slack) :
                                 \A j \in FreeIds(slack) : i <= j)
        created == Put(slack, channel_id,
                       NamedConversation(channel_id, name, is_private, creator_id, <<>>))
        marked == Put(slack, channel_id,
                      NamedConversation(channel_id, name, is_private, creator_id,
                                        purpose_string))
        call == [op |-> "channels_create", name |-> name, token_type |-> token_type,
                 enabled |-> enabled,
                 clean |-> enabled /\ faults = NoFaults /\ errors = NoErrors,
                 previous |-> Previous(last)]
        Fails(outcome, requests) ==
            /\ last' = call @@ [outcome |-> outcome, requests |-> requests]
            /\ UNCHANGED <<channels, channels_inv, channels_ready, channels_cache, slack>>
        \* the existing channel is looked up; the call answers with what it finds
        Looks(found, requests) ==
            last' = call @@ existing_channel(slack, name, found, faults.info)
                         @@ [requests |-> requests, found |-> found,
                             looked_up |-> ~ faults.info /\ found \in DOMAIN slack,
                             before |-> Get(slack, found)]
        Refreshed(ws) ==
            \E after \in {RefreshedChannels(ws, TRUE, page_size, errors)} :
                /\ channels' = after.channels
                /\ channels_inv' = after.inv
                /\ channels_cache' = after.cache
                /\ channels_ready' = TRUE
    IN
    /\ UNCHANGED <<users, users_inv, users_ready, users_cache>>
    /\ IF ~ enabled THEN Fails("disabled", <<>>)
       ELSE IF name = <<>> \/ Len(name) > MaxNameLen
               \/ \E i \in 1..Len(name) : name[i] \notin NameChars
       THEN Fails("invalid_name", <<>>)
       ELSE IF cached_channel_id # None
       THEN /\ Looks(cached_channel_id, <<>>)
            /\ UNCHANGED <<channels, channels_inv, channels_ready, channels_cache, slack>>
       ELSE IF NameTaken(slack, name)
       THEN /\ Refreshed(slack)
            /\ UNCHANGED slack
            /\ IF Get(channels_inv', <<"#">> \o name) # None
               THEN Looks(Get(channels_inv', <<"#">> \o name), <<"conversations_create">>)
               ELSE last' = call @@ [outcome |-> "taken_but_not_found",
                                     requests |-> <<"conversations_create">>]
       ELSE IF faults.create
       THEN Fails("slack_api_error", <<"conversations_create">>)
       ELSE IF faults.set_purpose
       THEN /\ FreeIds(slack) # {}
            /\ slack' = created
            /\ last' = call @@ [outcome |-> "slack_api_error",
                                requests |-> <<"conversations_create",
                                               "conversations_setPurpose">>]
            /\ UNCHANGED <<channels, channels_inv, channels_ready, channels_cache>>
       ELSE /\ FreeIds(slack) # {}
            /\ slack' = marked
            /\ Refreshed(marked)
            /\ last' = call @@ [outcome |-> "returned",
                                info |-> channel_info(channel_id, name, is_private,
                                                      creator_id, purpose_string, TRUE),
                                requests |-> <<"conversations_create",
                                               "conversations_setPurpose">>]

(***************************************************************************)
(* Two channels_create calls that run beside each other                    *)
(***************************************************************************)
Creating == last.op = "creating_channels"

Invocations == {1, 2}

StartedInvocation ==
    [pc |-> "start", found |-> None, channel_id |-> None, outcome |-> "running",
     is_new |-> FALSE]

\* two calls channels_create(name) with the same token begin; ghost: whether
\* the name is new to the workspace and to the cache, and the channels the
\* calls have created remotely
channels_create_begins(name, token_type) ==
    /\ ~ Creating
    /\ last' = [op |-> "creating_channels", name |-> name, token_type |-> token_type,
                fresh |-> ~ NameTaken(slack, name)
                          /\ Get(channels_inv, <<"#">> \o name) = None,
                created |-> <<>>,
                calls |-> [i \in Invocations |-> StartedInvocation]]
    /\ UNCHANGED <<users, users_inv, channels, channels_inv, users_ready,
                   channels_ready, users_cache, channels_cache, slack>>

\* the lookup in the cache with which the call starts
channels_create_looks(i) ==
    /\ Creating /\ last.calls[i].pc = "start"
    /\ \E cached \in {Get(channels_inv, <<"#">> \o last.name)} :
          last' = [last EXCEPT !.calls[i] =
                      IF cached # None THEN [@ EXCEPT !.pc = "check", !.found = cached]
                      ELSE [@ EXCEPT !.pc = "create"]]
    /\ UNCHANGED <<users, users_inv, channels, channels_inv, users_ready,
                   channels_ready, users_cache, channels_cache, slack>>

\* client.conversations_create: name_taken when the workspace has the name
channels_create_creates(i) ==
    /\ Creating /\ last.calls[i].pc = "create"
    /\ UNCHANGED <<users, users_inv, channels, channels_inv, users_ready,
                   channels_ready, users_cache, channels_cache>>
    /\ IF NameTaken(slack, last.name)
       THEN /\ last' = [last EXCEPT !.calls[i] = [@ EXCEPT !.pc = "name_taken"]]
            /\ UNCHANGED slack
       ELSE /\ FreeIds(slack) # {}
            /\ \E id \in {NamedId(CHOOSE k \in FreeIds(slack) :
                                     \A j \in FreeIds(slack) : k <= j)} :
                  /\ slack' = Put(slack, id,
                                  NamedConversation(id, last.name, FALSE,
                                                    ClientUser(last.token_type), <<>>))
                  /\ last' = [last EXCEPT
                                 !.created = Append(@, id),
                                 !.calls[i] = [@ EXCEPT !.pc = "set_purpose",
                                                        !.channel_id = id]]

\* client.conversations_setPurpose with the marker
channels_create_sets_purpose(i) ==
    /\ Creating /\ last.calls[i].pc = "set_purpose"
    /\ last.calls[i].channel_id \in DOMAIN slack
    /\ slack' = Put(slack, last.calls[i].channel_id,
                    NamedConversation(last.calls[i].channel_id, last.name, FALSE,
                                      ClientUser(last.token_type), MCP_MARKER))
    /\ last' = [last EXCEPT !.calls[i] = [@ EXCEPT !.pc = "refresh"]]
    /\ UNCHANGED <<users, users_inv, channels, channels_inv, users_ready,
                   channels_ready, users_cache, channels_cache>>

\* provider.refresh_channels(force=True): after the purpose was set the call
\* returns with is_new true; after name_taken the cache is looked up again
channels_create_refreshes(i) ==
    /\ Creating /\ last.calls[i].pc \in {"refresh", "name_taken"}
    /\ \E after \in {RefreshedChannels(slack, TRUE, MaxPageSize, NoErrors)} :
          /\ channels' = after.channels
          /\ channels_inv' = after.inv
          /\ channels_cache' = after.cache
          /\ channels_ready' = TRUE
          /\ \E cached \in {Get(after.inv, <<"#">> \o last.name)} :
                last' = [last EXCEPT !.calls[i] =
                            IF last.calls[i].pc = "refresh"
                            THEN [@ EXCEPT !.pc = "done", !.outcome = "returned",
                                           !.is_new = TRUE]
                            ELSE IF cached # None
                            THEN [@ EXCEPT !.pc = "check", !.found = cached]
                            ELSE [@ EXCEPT !.pc = "done",
                                           !.outcome = "taken_but_not_found"]]
    /\ UNCHANGED <<users, users_inv, users_ready, users_cache, slack>>

\* check_channel_ownership on the channel found, and the answer of the call
channels_create_checks(i) ==
    /\ Creating /\ last.calls[i].pc = "check"
    /\ last' = [last EXCEPT !.calls[i] =
                   [@ EXCEPT !.pc = "done", !.channel_id = last.calls[i].found,
                             !.outcome = existing_channel(slack, last.name,
                                                          last.calls[i].found,
                                                          FALSE).outcome]]
    /\ UNCHANGED <<users, users_inv, channels, channels_inv, users_ready,
                   channels_ready, users_cache, channels_cache, slack>>

(***************************************************************************)
(* Text, bytes and the cursor encodings                                    *)
(***************************************************************************)
\* the ASCII characters in the order of their codes; a control character and
\* the grave accent are written by their codes in hexadecimal
Chars ==
 <<
    "<00>", "<01>", "<02>", "<03>", "<04>", "<05>", "<06>", "<07>", "<08>", "<09>", "<0a>", "<0b>",
    "<0c>", "<0d>", "<0e>", "<0f>", "<10>", "<11>", "<12>", "<13>", "<14>", "<15>", "<16>", "<17>",
    "<18>", "<19>", "<1a>", "<1b>", "<1c>", "<1d>", "<1e>", "<1f>", " ", "!", "\"", "#",
    "$", "%", "&", "'", "(", ")", "*", "+", ",", "-", ".", "/",
    "0", "1", "2", "3", "4", "5", "6", "7", "8", "9", ":", ";",
    "<", "=", ">", "?", "@", "A", "B", "C", "D", "E", "F", "G",
    "H", "I", "J", "K", "L", "M", "N", "O", "P", "Q", "R", "S",
    "T", "U", "V", "W", "X", "Y", "Z", "[", "\\", "]", "^", "_",
    "<60>", "a", "b", "c", "d", "e", "f", "g", "h", "i", "j", "k",
    "l", "m", "n", "o", "p", "q", "r", "s", "t", "u", "v", "w",
    "x", "y", "z", "{", "|", "}", "~", "<7f>"
 >>

\* a character beyond ASCII, whichever it is
NonAscii == "<non-ascii>"

IsAscii(c) == \E i \in 1..Len(Chars) : Chars[i] = c

Ord(c) == IF IsAscii(c) THEN (CHOOSE i \in 1..Len(Chars) : Chars[i] = c) - 1 ELSE 128

Chr(n) == Chars[n + 1]

\* a > b on str: by code point, a proper prefix being the smaller
RECURSIVE Greater(_, _)
Greater(a, b) ==
    IF a = <<>> THEN FALSE
    ELSE IF b = <<>> THEN TRUE
    ELSE IF Head(a) = Head(b) THEN Greater(Tail(a), Tail(b))
    ELSE Ord(Head(a)) > Ord(Head(b))

\* str.encode() of ASCII text
encode(text) == [i \in 1..Len(text) |-> Ord(text[i])]

\* bytes.decode(): UTF-8, strict
RECURSIVE decode_utf8(_, _)
decode_utf8(bytes, text) ==
    IF bytes = <<>> THEN [ok |-> TRUE, text |-> text]
    ELSE LET b == Head(bytes)
             Continues(k) ==
                 /\ Len(bytes) > k
                 /\ \A i \in 2..(k + 1) : bytes[i] \in 128..191
         IN IF b < 128
            THEN decode_utf8(Tail(bytes), Append(text, Chr(b)))
            ELSE IF b \in 194..223 /\ Continues(1)
            THEN decode_utf8(SubSeq(bytes, 3, Len(bytes)), Append(text, NonAscii))
            ELSE IF /\ b \in 224..239 /\ Continues(2)
                    /\ b = 224 => bytes[2] >= 160
                    /\ b = 237 => bytes[2] <= 159
            THEN decode_utf8(SubSeq(bytes, 4, Len(bytes)), Append(text, NonAscii))
            ELSE IF /\ b \in 240..244 /\ Continues(3)
                    /\ b = 240 => bytes[2] >= 144
                    /\ b = 244 => bytes[2] <= 143
            THEN decode_utf8(SubSeq(bytes, 5, Len(bytes)), Append(text, NonAscii))
            ELSE [ok |-> FALSE, text |-> <<>>]

decode(bytes) == decode_utf8(bytes, <<>>)

\* the alphabet of base64
B64 ==
 <<
    "A", "B", "C", "D", "E", "F", "G", "H", "I", "J", "K", "L",
    "M", "N", "O", "P", "Q", "R", "S", "T", "U", "V", "W", "X",
    "Y", "Z", "a", "b", "c", "d", "e", "f", "g", "h", "i", "j",
    "k", "l", "m", "n", "o", "p", "q", "r", "s", "t", "u", "v",
    "w", "x", "y", "z", "0", "1", "2", "3", "4", "5", "6", "7",
    "8", "9", "+", "/"
 >>

IsB64(c) == \E i \in 1..Len(B64) : B64[i] = c

B64Value(c) == (CHOOSE i \in 1..Len(B64) : B64[i] = c) - 1

B64Char(n) == B64[n + 1]

\* base64.b64encode(bytes).decode()
RECURSIVE b64encode(_)
b64encode(bytes) ==
    IF bytes = <<>> THEN <<>>
    ELSE IF Len(bytes) = 1
    THEN <<B64Char(bytes[1] \div 4), B64Char((bytes[1] % 4) * 16), "=", "=">>
    ELSE IF Len(bytes) = 2
    THEN <<B64Char(bytes[1] \div 4),
           B64Char((bytes[1] % 4) * 16 + bytes[2] \div 16),
           B64Char((bytes[2] % 16) * 4), "=">>
    ELSE <<B64Char(bytes[1] \div 4),
           B64Char((bytes[1] % 4) * 16 + bytes[2] \div 16),
           B64Char((bytes[2] % 16) * 4 + bytes[3] \div 64),
           B64Char(bytes[3] % 64)>> \o b64encode(SubSeq(bytes, 4, Len(bytes)))

\* binascii.a2b_base64, not strict: characters outside the alphabet are
\* skipped, a complete padding ends the data, an incomplete group is an error
RECURSIVE a2b_base64(_, _, _, _, _)
a2b_base64(data, quad_pos, leftchar, pads, out) ==
    IF data = <<>>
    THEN IF quad_pos # 0 THEN [ok |-> FALSE, bytes |-> <<>>]
         ELSE [ok |-> TRUE, bytes |-> out]
    ELSE LET this_ch == Head(data) IN
         IF this_ch = "="
         THEN IF quad_pos >= 2 /\ quad_pos + pads + 1 >= 4
              THEN [ok |-> TRUE, bytes |-> out]
              ELSE a2b_base64(Tail(data), quad_pos, leftchar,
                              IF quad_pos >= 2 THEN pads + 1 ELSE pads, out)
         ELSE IF ~ IsB64(this_ch)
         THEN a2b_base64(Tail(data), quad_pos, leftchar, pads, out)
         ELSE LET v == B64Value(this_ch) IN
              IF quad_pos = 0 THEN a2b_base64(Tail(data), 1, v, 0, out)
              ELSE IF quad_pos = 1
              THEN a2b_base64(Tail(data), 2, v % 16, 0,
                              Append(out, leftchar * 4 + v \div 16))
              ELSE IF quad_pos = 2
              THEN a2b_base64(Tail(data), 3, v % 4, 0,
                              Append(out, leftchar * 16 + v \div 4))
              ELSE a2b_base64(Tail(data), 0, 0, 0, Append(out, leftchar * 64 + v))

\* base64.b64decode(text): text that is not ASCII is refused
b64decode(text) ==
    IF \E i \in 1..Len(text) : ~ IsAscii(text[i]) THEN [ok |-> FALSE, bytes |-> <<>>]
    ELSE a2b_base64(text, 0, 0, 0, <<>>)

\* base64.b64decode(cursor).decode(): the text of a cursor, or an exception
decode_cursor(cursor) ==
    LET bytes == b64decode(cursor) IN
    IF bytes.ok THEN decode(bytes.bytes) ELSE [ok |-> FALSE, text |-> <<>>]

\* base64.b64encode(text.encode()).decode()
encode_cursor(text) == b64encode(encode(text))

(***************************************************************************)
(* Numbers in text, and the limit expression                               *)
(***************************************************************************)
IsDigit(c) == c \in {"0", "1", "2", "3", "4", "5", "6", "7", "8", "9"}

\* str.isdigit() of ASCII text
isdigit(text) == text # <<>> /\ \A i \in 1..Len(text) : IsDigit(text[i])

\* str.lower() of ASCII text
lower(text) ==
    [i \in 1..Len(text) |->
        IF Ord(text[i]) \in 65..90 THEN Chr(Ord(text[i]) + 32) ELSE text[i]]

Whitespace == {" ", "<09>", "<0a>", "<0b>", "<0c>", "<0d>", "<1c>", "<1d>", "<1e>", "<1f>"}

RECURSIVE StripWhitespace(_)
StripWhitespace(text) ==
    IF text # <<>> /\ Head(text) \in Whitespace THEN StripWhitespace(Tail(text))
    ELSE IF text # <<>> /\ text[Len(text)] \in Whitespace
    THEN StripWhitespace(SubSeq(text, 1, Len(text) - 1))
    ELSE text

\* the number a sequence of digits writes
RECURSIVE DecimalValue(_)
DecimalValue(digits) ==
    IF digits = <<>> THEN 0
    ELSE 10 * DecimalValue(SubSeq(digits, 1, Len(digits) - 1))
         + (Ord(digits[Len(digits)]) - 48)

\* int(text): white space around, a sign, digits with single underscores
\* between them; anything else is a ValueError
int(text) ==
    LET stripped == StripWhitespace(text)
        signed == stripped # <<>> /\ Head(stripped) \in {"+", "-"}
        body == IF signed THEN Tail(stripped) ELSE stripped
        well_formed ==
            /\ body # <<>>
            /\ IsDigit(body[1]) /\ IsDigit(body[Len(body)])
            /\ \A i \in 1..Len(body) : IsDigit(body[i]) \/ body[i] = "_"
            /\ \A i \in 1..(Len(body) - 1) : ~ (body[i] = "_" /\ body[i + 1] = "_")
        value == DecimalValue(SelectSeq(body, IsDigit))
    IN IF well_formed
       THEN [ok |-> TRUE, value |-> IF signed /\ Head(stripped) = "-" THEN 0 - value ELSE value]
       ELSE [ok |-> FALSE, value |-> 0]

\* str(n) of an integer
RECURSIVE str(_)
str(n) ==
    IF n < 0 THEN <<"-">> \o str(0 - n)
    ELSE IF n < 10 THEN <<Chr(48 + n)>>
    ELSE str(n \div 10) \o <<Chr(48 + (n % 10))>>

\* re.match(r"^(\d+)([dwm])$", text): "$" also matches before a last newline
match_duration(text) ==
    LET line == IF text # <<>> /\ text[Len(text)] = "<0a>"
                THEN SubSeq(text, 1, Len(text) - 1) ELSE text
    IN IF /\ Len(line) >= 2
          /\ line[Len(line)] \in {"d", "w", "m"}
          /\ \A i \in 1..(Len(line) - 1) : IsDigit(line[i])
       THEN [ok |-> TRUE, num |-> SubSeq(line, 1, Len(line) - 1), unit |-> line[Len(line)]]
       ELSE [ok |-> FALSE]

\* the days datetime can hold, counted from 1970-01-01: 0001-01-01 to
\* 9999-12-31; the days a timedelta can hold
MinDay == -719162
MaxDay == 2932896
MaxTimedeltaDays == 999999999

SecondsPerDay == 86400

\* a subtraction that adds
DaysBefore_added(day, days) == [ok |-> TRUE, day |-> day + days]

\* datetime - timedelta(days): the day reached, or an OverflowError
DaysBefore(day, days) ==
    IF days > MaxTimedeltaDays \/ days < 0 - MaxTimedeltaDays
       \/ day - days < MinDay \/ day - days > MaxDay
    THEN [ok |-> FALSE, day |-> 0]
    ELSE [ok |-> TRUE, day |-> day - days]

\* f"{int(t.timestamp())}.000000" of a time of whole seconds
timestamp(seconds) == str(seconds) \o <<".", "0", "0", "0", "0", "0", "0">>

DefaultLimit == <<"1", "d">>

\* parse_limit_expression at the time now (day, second of the day and
\* microsecond, UTC): the count and the bounds returned, or the exception
parse_limit_expression(argument, now) ==
    LET limit == IF argument = <<>> THEN DefaultLimit ELSE argument
        match == match_duration(lower(limit))
        num == int(match.num).value
        start_of_today == now.day
        week_before == DaysBefore(start_of_today, 7 * num)
        oldest == IF match.unit = "d" THEN DaysBefore(start_of_today, num - 1)
                  ELSE IF match.unit = "w"
                  THEN IF week_before.ok THEN DaysBefore(week_before.day, -1)
                       ELSE week_before
                  ELSE DaysBefore(start_of_today, num * 30)
    IN IF isdigit(limit)
       THEN [raised |-> "", count |-> int(limit).value, oldest |-> None, latest |-> None]
       ELSE IF ~ match.ok THEN [raised |-> "ValueError"]
       ELSE IF ~ oldest.ok THEN [raised |-> "OverflowError"]
       ELSE [raised |-> "", count |-> 100,
             oldest |-> timestamp(oldest.day * SecondsPerDay),
             latest |-> timestamp(now.day * SecondsPerDay + now.second)]

\* a call of parse_limit_expression at the time now
parse_limit(limit, now) ==
    /\ last' = [op |-> "parse_limit_expression", limit |-> limit, now |-> now,
                result |-> parse_limit_expression(limit, now)]
    /\ UNCHANGED <<users, users_inv, channels, channels_inv, users_ready,
                   channels_ready, users_cache, channels_cache, slack>>

(***************************************************************************)
(* Listing the cached channels                                             *)
(***************************************************************************)
PublicChannelText == <<"p", "u", "b", "l", "i", "c", "_", "c", "h", "a", "n", "n", "e", "l">>
PrivateChannelText == <<"p", "r", "i", "v", "a", "t", "e", "_", "c", "h", "a", "n", "n", "e", "l">>
ImText == <<"i", "m">>
MpimText == <<"m", "p", "i", "m">>

valid_types == {MpimText, ImText, PublicChannelText, PrivateChannelText}

\* the type a text of valid_types names
TypeNamed(text) ==
    IF text = MpimText THEN "mpim"
    ELSE IF text = ImText THEN "im"
    ELSE IF text = PublicChannelText THEN "public_channel"
    ELSE "private_channel"

\* text.split(sep)
RECURSIVE Split(_, _)
Split(text, sep) ==
    IF \A i \in 1..Len(text) : text[i] # sep THEN <<text>>
    ELSE LET at == CHOOSE i \in 1..Len(text) :
                      text[i] = sep /\ \A j \in 1..(i - 1) : text[j] # sep
         IN <<SubSeq(text, 1, at - 1)>> \o Split(SubSeq(text, at + 1, Len(text)), sep)

get_channels_by_types(types) ==
    {channels[id] : id \in {i \in DOMAIN channels :
        LET channel == channels[i] IN
        \/ /\ "public_channel" \in types
           /\ ~ channel.is_private /\ ~ channel.is_im /\ ~ channel.is_mpim
        \/ /\ "private_channel" \in types
           /\ channel.is_private /\ ~ channel.is_im /\ ~ channel.is_mpim
        \/ "im" \in types /\ channel.is_im
        \/ "mpim" \in types /\ channel.is_mpim}}

\* list.sort(key=lambda c: c.id) of channels with distinct ids
RECURSIVE SortedById(_)
SortedById(chs) ==
    IF chs = {} THEN <<>>
    ELSE LET least == CHOOSE c \in chs : \A other \in chs \ {c} : Greater(other.id, c.id)
         IN <<least>> \o SortedById(chs \ {least})

\* list.sort(key=lambda c: c.member_count, reverse=True): by falling member
\* count, channels of equal count staying in the order they were in
RECURSIVE SortedByPopularity(_)
SortedByPopularity(chs) ==
    IF chs = <<>> THEN <<>>
    ELSE LET at == CHOOSE i \in 1..Len(chs) :
                      /\ \A j \in 1..Len(chs) : chs[j].member_count <= chs[i].member_count
                      /\ \A j \in 1..(i - 1) : chs[j].member_count < chs[i].member_count
         IN <<chs[at]>> \o
            SortedByPopularity(SubSeq(chs, 1, at - 1) \o SubSeq(chs, at + 1, Len(chs)))

\* the channel types a channel_types argument selects
ListedTypes(channel_types) ==
    LET parts == Split(channel_types, ",")
        named == SelectSeq([i \in 1..Len(parts) |-> Strip(parts[i])],
                           LAMBDA t : t \in valid_types)
    IN IF named = <<>> THEN {"public_channel", "private_channel"}
       ELSE {TypeNamed(named[i]) : i \in 1..Len(named)}

MaxListed == 999

\* StartIndex that starts at the channel of the cursor itself
StartIndex_at_cursor(all_channels, cursor) ==
    LET decoded == decode_cursor(cursor)
        from == {i \in 1..Len(all_channels) :
                    ~ Greater(decoded.text, all_channels[i].id)}
    IN IF cursor # None /\ cursor # <<>> /\ decoded.ok /\ from # {}
       THEN (CHOOSE i \in from : \A j \in from : i <= j) - 1
       ELSE 0

\* the index at which the page starts: that of the first channel with an id
\* greater than the cursor, 0 when there is none or the cursor does not decode
StartIndex(all_channels, cursor) ==
    LET decoded == decode_cursor(cursor)
        greater == {i \in 1..Len(all_channels) :
                       Greater(all_channels[i].id, decoded.text)}
    IN IF cursor # None /\ cursor # <<>> /\ decoded.ok /\ greater # {}
       THEN (CHOOSE i \in greater : \A j \in greater : i <= j) - 1
       ELSE 0

\* the rows channels_list answers with, the cursor in the last one
ListedRows(all_channels, sort, limit, cursor) ==
    LET capped == IF limit > MaxListed THEN MaxListed ELSE limit
        start_index == StartIndex(all_channels, cursor)
        end_index == IF start_index + capped < Len(all_channels)
                     THEN start_index + capped ELSE Len(all_channels)
        \* all_channels[start_index:end_index]: a negative end counts from
        \* the end of the list, as does the negative index end_index - 1
        stop == IF end_index >= 0 THEN end_index
                ELSE IF Len(all_channels) + end_index > 0
                THEN Len(all_channels) + end_index ELSE 0
        sliced == SubSeq(all_channels, start_index + 1, stop)
        paged_channels == IF sort = "popularity" THEN SortedByPopularity(sliced)
                          ELSE sliced
        next_cursor == IF paged_channels # <<>> /\ end_index < Len(all_channels)
                       THEN encode_cursor(all_channels[stop].id) ELSE <<>>
    IN [i \in 1..Len(paged_channels) |->
           [id |-> paged_channels[i].id, name |-> paged_channels[i].name,
            topic |-> paged_channels[i].topic, purpose |-> paged_channels[i].purpose,
            memberCount |-> paged_channels[i].member_count,
            cursor |-> IF i = Len(paged_channels) THEN next_cursor ELSE <<>>]]

\* the cursor a result carries: that of its last row
CursorOf(rows) == IF rows = <<>> THEN <<>> ELSE rows[Len(rows)].cursor

channels_list(channel_types, sort, limit, cursor, token_type) ==
    /\ UNCHANGED <<users, users_inv, channels, channels_inv, users_ready,
                   channels_ready, users_cache, channels_cache, slack>>
    /\ IF ~ (users_ready /\ channels_ready)
       THEN last' = [op |-> "channels_list", outcome |-> "not_ready"]
       ELSE \E rows \in {ListedRows(SortedById(get_channels_by_types(
                                        ListedTypes(channel_types))),
                                    sort, limit, cursor)} :
            LET continues == /\ last.op = "channels_list"
                             /\ last.outcome = "returned"
                             /\ last.walking
                             /\ last.channel_types = channel_types
                             /\ cursor = CursorOf(last.rows)
                             /\ cursor # <<>>
                ids == [i \in 1..Len(rows) |-> rows[i].id]
            IN last' = [op |-> "channels_list", outcome |-> "returned",
                        channel_types |-> channel_types, sort |-> sort,
                        cursor |-> cursor, rows |-> rows, limit |-> limit,
                        \* the walk this call belongs to: from a call without
                        \* cursor on, each call passing the cursor of the one before
                        walking |-> cursor = None \/ continues,
                        walked |-> IF continues THEN last.walked \o ids ELSE ids,
                        limits |-> IF continues THEN last.limits \cup {limit}
                                   ELSE {limit}]

(***************************************************************************)
(* Reading messages: history, replies, search                              *)
(***************************************************************************)
\* an optional text argument that was given and is not empty
Truthy(text) == text # None /\ text # <<>>

\* the columns of a row that come from the message and the caches; text, time
\* and reactions are formatted by text_utils and take no part in paging
convert_slack_message(msg, channel_id) ==
    LET uid == Field(msg, "user", <<>>)
        cached == uid \in DOMAIN users
        bot == Field(msg, "subtype", "") = "bot_message" /\ ~ cached
        user_name == IF bot THEN Field(msg, "username", uid)
                     ELSE IF cached THEN users[uid].name ELSE uid
        real_name == IF bot THEN user_name
                     ELSE IF cached THEN users[uid].real_name ELSE uid
    IN [msgID |-> Field(msg, "ts", <<>>), userID |-> uid, userName |-> user_name,
        realName |-> real_name, channelID |-> channel_id,
        ThreadTs |-> Field(msg, "thread_ts", <<>>), cursor |-> <<>>]

\* the rows of a page of messages: activity messages left out unless asked
\* for, the cursor of the remote in the last row when it says has_more
message_rows(response, channel_id, include_activity_messages) ==
    LET kept == SelectSeq(response.messages,
                          LAMBDA msg : \/ Field(msg, "subtype", "") \in {"", "bot_message"}
                                       \/ include_activity_messages)
        messages == [i \in 1..Len(kept) |-> convert_slack_message(kept[i], channel_id)]
    IN IF messages # <<>> /\ response.has_more
       THEN [messages EXCEPT ![Len(messages)].cursor = response.next_cursor]
       ELSE messages

\* the parameters of the remote request for a page of messages
history_params(channel, parsed, cursor) ==
    [channel |-> channel, limit |-> parsed.count, inclusive |-> FALSE]
    @@ (IF Truthy(parsed.oldest) THEN [oldest |-> parsed.oldest] ELSE <<>>)
    @@ (IF Truthy(parsed.latest) THEN [latest |-> parsed.latest] ELSE <<>>)
    @@ (IF Truthy(cursor) THEN [cursor |-> cursor] ELSE <<>>)

\* the part of conversations_history and conversations_replies from the
\* parsing of the limit on
read_messages(op, method, resolved_channel, extra, include_activity_messages, cursor, limit, now, answer) ==
    \E parsed \in {parse_limit_expression(IF ~ Truthy(cursor) THEN limit ELSE <<>>, now)} :
    LET call == [op |-> op, cursor |-> cursor, limit |-> limit]
        request == [method |-> method,
                    params |-> history_params(resolved_channel, parsed, cursor) @@ extra]
    IN IF parsed.raised # ""
       THEN last' = call @@ [outcome |-> "invalid_limit", raised |-> parsed.raised,
                             requests |-> <<>>]
       ELSE IF answer.error
       THEN last' = call @@ [outcome |-> "slack_api_error", requests |-> <<request>>]
       ELSE last' = call @@ [outcome |-> "returned", requests |-> <<request>>,
                             more |-> answer.has_more,
                             rows |-> message_rows(answer, resolved_channel,
                                                   include_activity_messages)]

conversations_history(channel_id, include_activity_messages, cursor, limit, token_type, now, answer) ==
    /\ UNCHANGED <<users, users_inv, channels, channels_inv, users_ready,
                   channels_ready, users_cache, channels_cache, slack>>
    /\ IF resolve_channel(channel_id) = None
       THEN last' = [op |-> "conversations_history", cursor |-> cursor, limit |-> limit,
                     outcome |-> "not_found", requests |-> <<>>]
       ELSE read_messages("conversations_history", "conversations.history",
                          resolve_channel(channel_id), <<>>,
                          include_activity_messages, cursor, limit, now, answer)

conversations_replies(channel_id, thread_ts, include_activity_messages, cursor, limit, token_type, now, answer) ==
    /\ UNCHANGED <<users, users_inv, channels, channels_inv, users_ready,
                   channels_ready, users_cache, channels_cache, slack>>
    /\ IF resolve_channel(channel_id) = None
       THEN last' = [op |-> "conversations_replies", cursor |-> cursor, limit |-> limit,
                     outcome |-> "not_found", requests |-> <<>>]
       ELSE IF ~ Truthy(thread_ts) \/ ~ Contains(thread_ts, <<".">>)
       THEN last' = [op |-> "conversations_replies", cursor |-> cursor, limit |-> limit,
                     outcome |-> "invalid_thread_ts", requests |-> <<>>]
       ELSE read_messages("conversations_replies", "conversations.replies",
                          resolve_channel(channel_id), [ts |-> thread_ts],
                          include_activity_messages, cursor, limit, now, answer)

\* text.lstrip(c)
RECURSIVE LStripChar(_, _)
LStripChar(text, c) ==
    IF text # <<>> /\ Head(text) = c THEN LStripChar(Tail(text), c) ELSE text

\* the name searched in for filter_in_channel: that of the cached channel
\* of this name or, failing that, of this id, or else the text given, each
\* without the "#" in front
in_channel(filter_in_channel) ==
    LET by_name == Get(channels_inv, filter_in_channel)
        found == IF Truthy(by_name) /\ by_name \in DOMAIN channels THEN by_name
                 ELSE IF filter_in_channel \in DOMAIN channels THEN filter_in_channel
                 ELSE None
    IN IF found # None THEN LStripChar(channels[found].name, "#")
       ELSE LStripChar(filter_in_channel, "#")

\* a query that keeps every text supplied, resolved or not
search_query_of_supplied(search_query, filter_in_channel, filter_in_im_or_mpim, filter_users_with, filter_users_from, filter_date_before, filter_date_after, filter_date_on, filter_date_during, filter_threads_only) ==
    Join(SelectSeq(<<search_query, filter_in_channel, filter_in_im_or_mpim,
                     filter_users_with, filter_users_from, filter_date_on,
                     filter_date_during, filter_date_after, filter_date_before>>,
                   Truthy), <<" ">>)

\* a query of the free text alone
search_query_of_text(search_query, filter_in_channel, filter_in_im_or_mpim, filter_users_with, filter_users_from, filter_date_before, filter_date_after, filter_date_on, filter_date_during, filter_threads_only) ==
    IF Truthy(search_query) THEN search_query ELSE <<>>

\* the query of a search: its parts in their order, joined by spaces
search_query_of(search_query, filter_in_channel, filter_in_im_or_mpim, filter_users_with, filter_users_from, filter_date_before, filter_date_after, filter_date_on, filter_date_during, filter_threads_only) ==
    LET Part(present, text) == IF present THEN <<text>> ELSE <<>>
        Mention(id) == <<"<", "@">> \o id \o <<">">>
        im == resolve_user(filter_in_im_or_mpim)
        with == resolve_user(filter_users_with)
        from == resolve_user(filter_users_from)
        on == Truthy(filter_date_on)
        during == ~ on /\ Truthy(filter_date_during)
        query_parts ==
            Part(Truthy(search_query), search_query)
            \o Part(filter_threads_only, <<"i", "s", ":", "t", "h", "r", "e", "a", "d">>)
            \o Part(Truthy(filter_in_channel),
                    <<"i", "n", ":">> \o in_channel(filter_in_channel))
            \o Part(Truthy(filter_in_im_or_mpim),
                    <<"i", "n", ":">> \o (IF Truthy(im) THEN Mention(im)
                                          ELSE filter_in_im_or_mpim))
            \o Part(Truthy(filter_users_with) /\ Truthy(with),
                    <<"w", "i", "t", "h", ":">> \o Mention(with))
            \o Part(Truthy(filter_users_from) /\ Truthy(from),
                    <<"f", "r", "o", "m", ":">> \o Mention(from))
            \o Part(on, <<"o", "n", ":">> \o filter_date_on)
            \o Part(during, <<"d", "u", "r", "i", "n", "g", ":">> \o filter_date_during)
            \o Part(~ on /\ ~ during /\ Truthy(filter_date_after),
                    <<"a", "f", "t", "e", "r", ":">> \o filter_date_after)
            \o Part(~ on /\ ~ during /\ Truthy(filter_date_before),
                    <<"b", "e", "f", "o", "r", "e", ":">> \o filter_date_before)
    IN Join(query_parts, <<" ">>)

PagePrefix == <<"p", "a", "g", "e", ":">>

\* a search that reads no cursor
page_of_cursor_first(cursor) == [raised |-> FALSE, page |-> 1]

\* the page a search cursor asks for, or the failure to read it
page_of_cursor(cursor) ==
    LET decoded == decode_cursor(cursor)
        number == int(Split(decoded.text, ":")[2])
    IN IF ~ Truthy(cursor) THEN [raised |-> FALSE, page |-> 1]
       ELSE IF ~ decoded.ok THEN [raised |-> TRUE, page |-> 1]
       ELSE IF ~ StartsWith(decoded.text, PagePrefix) THEN [raised |-> FALSE, page |-> 1]
       ELSE IF ~ number.ok THEN [raised |-> TRUE, page |-> 1]
       ELSE [raised |-> FALSE, page |-> number.value]

\* the cursor of the page after page
page_cursor(page) == encode_cursor(PagePrefix \o str(page + 1))

\* the rows of a page of matches: the cursor of the next page in the last
\* row when the page is not the last
search_rows(matches, page, page_count) ==
    LET Row(msg) ==
            LET uid == Field(msg, "user", <<>>)
                cached == uid \in DOMAIN users
                user_name == IF cached THEN users[uid].name
                             ELSE Field(msg, "username", uid)
            IN [msgID |-> Field(msg, "ts", <<>>), userID |-> uid, userName |-> user_name,
                realName |-> IF cached THEN users[uid].real_name ELSE user_name,
                channelID |-> IF Truthy(Field(msg, "channel", <<>>))
                              THEN <<"#">> \o msg.channel ELSE <<>>,
                ThreadTs |-> Field(msg, "thread_ts", <<>>), cursor |-> <<>>]
        messages == [i \in 1..Len(matches) |-> Row(matches[i])]
    IN IF messages # <<>> /\ page < page_count
       THEN [messages EXCEPT ![Len(messages)].cursor = page_cursor(page)]
       ELSE messages

\* the remote answers a search with the page asked for, out of page_count
conversations_search_messages(search_query, filter_in_channel, filter_in_im_or_mpim, filter_users_with, filter_users_from, filter_date_before, filter_date_after, filter_date_on, filter_date_during, filter_threads_only, cursor, limit, token_type, answer) ==
    /\ UNCHANGED <<users, users_inv, channels, channels_inv, users_ready,
                   channels_ready, users_cache, channels_cache, slack>>
    /\ \E query \in {search_query_of(search_query, filter_in_channel, filter_in_im_or_mpim,
                                       filter_users_with, filter_users_from,
                                       filter_date_before, filter_date_after,
                                       filter_date_on, filter_date_during,
                                       filter_threads_only)},
          read \in {page_of_cursor(cursor)} :
       LET request == [method |-> "search.messages",
                       params |-> [query |-> query, count |-> limit, page |-> read.page,
                                   highlight |-> FALSE]]
           \* the call passes the cursor that the result before it carried
           continues == /\ last.op = "conversations_search_messages"
                        /\ last.outcome = "returned"
                        /\ Truthy(cursor)
                        /\ cursor = CursorOf(last.rows)
           call == [op |-> "conversations_search_messages", cursor |-> cursor,
                    filters |-> [search_query |-> search_query,
                                 filter_in_channel |-> filter_in_channel,
                                 filter_in_im_or_mpim |-> filter_in_im_or_mpim,
                                 filter_users_with |-> filter_users_with,
                                 filter_users_from |-> filter_users_from,
                                 filter_date_before |-> filter_date_before,
                                 filter_date_after |-> filter_date_after,
                                 filter_date_on |-> filter_date_on,
                                 filter_date_during |-> filter_date_during,
                                 filter_threads_only |-> filter_threads_only],
                    query |-> query,
                    continues |-> continues,
                    next_page |-> IF continues THEN last.page + 1 ELSE 1]
       IN IF query = <<>>
          THEN last' = call @@ [outcome |-> "no_query", requests |-> <<>>]
          ELSE IF read.raised
          THEN last' = call @@ [outcome |-> "invalid_cursor", requests |-> <<>>]
          ELSE IF answer.error
          THEN last' = call @@ [outcome |-> "slack_api_error", requests |-> <<request>>]
          ELSE last' = call @@ [outcome |-> "returned", requests |-> <<request>>,
                                page |-> read.page,
                                more |-> read.page < answer.page_count,
                                \* the remote has matches on the pages 1..page_count
                                rows |-> search_rows(IF read.page \in 1..answer.page_count
                                                     THEN answer.matches ELSE <<>>,
                                                     read.page, answer.page_count)]

(***************************************************************************)
(* Posting a message, inviting and removing users                          *)
(***************************************************************************)
\* is_channel_management_enabled over the value of SLACK_MCP_CHANNEL_MANAGEMENT
is_channel_management_enabled(config) ==
    lower(config) \in {<<"t", "r", "u", "e">>, <<"1">>, <<"y", "e", "s">>}

\* the items of SLACK_MCP_ADD_MESSAGE_TOOL: its parts between commas,
\* stripped, the empty ones left out
AllowItems(config) ==
    LET parts == Split(config, ",")
    IN SelectSeq([i \in 1..Len(parts) |-> StripWhitespace(parts[i])],
                 LAMBDA item : item # <<>>)

\* is_channel_allowed that reads the first item alone
is_channel_allowed_first(channel_id, config) ==
    LET items == AllowItems(config) IN
    IF config = <<>> \/ config \in {<<"t", "r", "u", "e">>, <<"1">>} THEN TRUE
    ELSE IF items = <<>> THEN TRUE
    ELSE IF StartsWith(items[1], <<"!">>)
    THEN LStripChar(items[1], "!") # channel_id
    ELSE items[1] = channel_id

is_channel_allowed(channel_id, config) ==
    LET items == AllowItems(config) IN
    IF config = <<>> \/ config \in {<<"t", "r", "u", "e">>, <<"1">>} THEN TRUE
    ELSE IF items = <<>> THEN TRUE
    ELSE IF StartsWith(items[1], <<"!">>)
    THEN \A i \in 1..Len(items) : LStripChar(items[i], "!") # channel_id
    ELSE \E i \in 1..Len(items) : items[i] = channel_id

\* the messages the workspace keeps of the model's posts to a conversation
MaxPosted == 2

MarkdownText == <<"text/markdown">>

PlainText == <<"text/plain">>

\* conversations_add_message that posts without reading the setting
conversations_add_message_unchecked(channel_id, payload, thread_ts, content_type, token_type, tool_config, mark_config, fault) ==
    /\ last' = [op |-> "conversations_add_message", channel_id |-> channel_id,
                tool_config |-> tool_config, resolved_channel |-> resolve_channel(channel_id),
                outcome |-> "slack_api_error", requests |-> <<"chat_postMessage">>]
    /\ UNCHANGED <<users, users_inv, channels, channels_inv, users_ready,
                   channels_ready, users_cache, channels_cache, slack>>

conversations_add_message(channel_id, payload, thread_ts, content_type, token_type, tool_config, mark_config, fault) ==
    LET resolved_channel == resolve_channel(channel_id)
        kwargs == [channel |-> resolved_channel, text |-> payload]
                  @@ (IF Truthy(thread_ts) THEN [thread_ts |-> thread_ts]
                      ELSE [k \in {} |-> None])
                  @@ (IF content_type = PlainText THEN [mrkdwn |-> FALSE]
                      ELSE [k \in {} |-> None])
        before == Field(slack[resolved_channel], "messages", <<>>)
        ts == <<"1", ".">> \o str(Len(before) + 1)
        msg == [ts |-> ts, user |-> ClientUser(token_type), text |-> payload]
               @@ (IF Truthy(thread_ts) THEN [thread_ts |-> thread_ts]
                   ELSE [k \in {} |-> None])
        posted == Put(slack, resolved_channel,
                      [messages |-> Append(before, msg)] @@ slack[resolved_channel])
        marks == mark_config \in {<<"1">>, <<"true">>, <<"yes">>}
        call == [op |-> "conversations_add_message", channel_id |-> channel_id,
                 tool_config |-> tool_config, resolved_channel |-> resolved_channel]
        Fails(outcome, requests) ==
            /\ last' = call @@ [outcome |-> outcome, requests |-> requests]
            /\ UNCHANGED slack
        Posts(outcome, requests) ==
            /\ Len(before) < MaxPosted
            /\ slack' = posted
            /\ last' = call @@ [outcome |-> outcome, requests |-> requests,
                                kwargs |-> kwargs,
                                rows |-> <<convert_slack_message(msg, resolved_channel)>>]
    IN
    /\ UNCHANGED <<users, users_inv, channels, channels_inv, users_ready,
                   channels_ready, users_cache, channels_cache>>
    /\ IF tool_config = <<>> THEN Fails("disabled", <<>>)
       ELSE IF resolved_channel = None THEN Fails("channel_not_found", <<>>)
       ELSE IF ~ is_channel_allowed(resolved_channel, tool_config)
       THEN Fails("not_allowed", <<>>)
       ELSE IF Truthy(thread_ts) /\ ~ Contains(thread_ts, <<".">>)
       THEN Fails("invalid_thread_ts", <<>>)
       ELSE IF content_type \notin {MarkdownText, PlainText}
       THEN Fails("invalid_content_type", <<>>)
       ELSE IF fault = "post" \/ resolved_channel \notin DOMAIN slack
       THEN Fails("slack_api_error", <<"chat_postMessage">>)
       ELSE IF marks /\ fault = "mark"
       THEN Posts("slack_api_error", <<"chat_postMessage", "conversations_mark">>)
       ELSE IF fault = "history"
       THEN Posts("slack_api_error",
                  <<"chat_postMessage">>
                  \o (IF marks THEN <<"conversations_mark">> ELSE <<>>)
                  \o <<"conversations_history">>)
       ELSE Posts("returned",
                  <<"chat_postMessage">>
                  \o (IF marks THEN <<"conversations_mark">> ELSE <<>>)
                  \o <<"conversations_history">>)

\* resolve_user_list: the ids of the references between commas, the empty
\* ones left out; None stands for the ValueError of one that does not resolve
resolve_user_list(user_refs) ==
    LET parts == Split(user_refs, ",")
        refs == SelectSeq([i \in 1..Len(parts) |-> Strip(parts[i])],
                          LAMBDA ref : ref # <<>>)
    IN IF \E i \in 1..Len(refs) : ~ Truthy(resolve_user(refs[i])) THEN None
       ELSE [i \in 1..Len(refs) |-> resolve_user(refs[i])]

\* the members the workspace knows of a conversation, in the order they joined
Joined(ws, channel) ==
    IF channel \in DOMAIN ws THEN Field(ws[channel], "joined", <<>>) ELSE <<>>

InSeq(x, seq) == \E i \in 1..Len(seq) : seq[i] = x

\* the answer of the remote to conversations_invite or conversations_kick
\* for a conversation it does not have, or has archived
Refuses(ws, channel) == channel \notin DOMAIN ws \/ ws[channel].is_archived

\* one turn of the invite loop: the request, and the list the user goes to
invite(acc, user, fails) ==
    IF acc.raised THEN acc
    ELSE IF fails
    THEN [acc EXCEPT !.raised = TRUE,
                     !.requests = Append(@, "conversations_invite")]
    ELSE IF InSeq(user, acc.joined)
    THEN [acc EXCEPT !.already_members = Append(@, user),
                     !.requests = Append(@, "conversations_invite")]
    ELSE [acc EXCEPT !.invited_users = Append(@, user),
                     !.joined = Append(@, user),
                     !.requests = Append(@, "conversations_invite")]

\* the invite loop over the first n users; the remote fails at turn fault_at
RECURSIVE invite_loop(_, _, _, _)
invite_loop(user_id_list, n, fault_at, start) ==
    IF n = 0 THEN start
    ELSE invite(invite_loop(user_id_list, n - 1, fault_at, start),
                user_id_list[n], fault_at = n)

\* a tool that invites each user as soon as its reference is resolved: the
\* users before a reference that does not resolve are invited
channels_invite_users_resolving(channel_id, user_ids, token_type, config, fault_at) ==
    LET resolved_channel == resolve_channel(channel_id)
        user_id_list == resolve_user_list(user_ids)
        first == resolve_user(Strip(Head(Split(user_ids, ","))))
        call == [op |-> "channels_invite_users", channel_id |-> channel_id,
                 user_ids |-> user_ids, config |-> config,
                 resolved_channel |-> resolved_channel, user_id_list |-> user_id_list,
                 joined |-> Joined(slack, resolved_channel), fault_at |-> fault_at,
                 refused |-> Refuses(slack, resolved_channel)]
    IN
    /\ UNCHANGED <<users, users_inv, channels, channels_inv, users_ready,
                   channels_ready, users_cache, channels_cache, slack>>
    /\ last' = call @@ [outcome |-> IF user_id_list = None THEN "users_not_resolved"
                                    ELSE "returned",
                        requests |-> IF Truthy(first) THEN <<"conversations_invite">>
                                     ELSE <<>>,
                        invited_users |-> <<>>, already_members |-> <<>>]

channels_invite_users(channel_id, user_ids, token_type, config, fault_at) ==
    LET resolved_channel == resolve_channel(channel_id)
        user_id_list == resolve_user_list(user_ids)
        call == [op |-> "channels_invite_users", channel_id |-> channel_id,
                 user_ids |-> user_ids, config |-> config,
                 resolved_channel |-> resolved_channel, user_id_list |-> user_id_list,
                 joined |-> Joined(slack, resolved_channel), fault_at |-> fault_at,
                 refused |-> Refuses(slack, resolved_channel)]
        Fails(outcome) ==
            /\ last' = call @@ [outcome |-> outcome, requests |-> <<>>]
            /\ UNCHANGED slack
    IN
    /\ UNCHANGED <<users, users_inv, channels, channels_inv, users_ready,
                   channels_ready, users_cache, channels_cache>>
    /\ IF ~ is_channel_management_enabled(config) THEN Fails("disabled")
       ELSE IF ~ Truthy(resolved_channel) THEN Fails("channel_not_found")
       ELSE IF user_id_list = None THEN Fails("users_not_resolved")
       ELSE IF user_id_list = <<>> THEN Fails("no_users")
       ELSE \E done \in {invite_loop(user_id_list, Len(user_id_list),
                                     IF Refuses(slack, resolved_channel) THEN 1
                                     ELSE fault_at,
                                     [invited_users |-> <<>>, already_members |-> <<>>,
                                      requests |-> <<>>, raised |-> FALSE,
                                      joined |-> Joined(slack, resolved_channel)])} :
                /\ slack' = IF resolved_channel \in DOMAIN slack
                            THEN Put(slack, resolved_channel,
                                     [joined |-> done.joined] @@ slack[resolved_channel])
                            ELSE slack
                /\ last' = call @@ [outcome |-> IF done.raised THEN "slack_api_error"
                                                ELSE "returned",
                                    requests |-> done.requests,
                                    invited_users |-> done.invited_users,
                                    already_members |-> done.already_members]

channels_remove_user(channel_id, user, token_type, config, fault) ==
    LET resolved_channel == resolve_channel(channel_id)
        resolved_user == resolve_user(user)
        call == [op |-> "channels_remove_user", channel_id |-> channel_id,
                 config |-> config, resolved_channel |-> resolved_channel,
                 resolved_user |-> resolved_user]
        Fails(outcome, requests) ==
            /\ last' = call @@ [outcome |-> outcome, requests |-> requests]
            /\ UNCHANGED slack
    IN
    /\ UNCHANGED <<users, users_inv, channels, channels_inv, users_ready,
                   channels_ready, users_cache, channels_cache>>
    /\ IF ~ is_channel_management_enabled(config) THEN Fails("disabled", <<>>)
       ELSE IF ~ Truthy(resolved_channel) THEN Fails("channel_not_found", <<>>)
       ELSE IF ~ Truthy(resolved_user) THEN Fails("user_not_found", <<>>)
       ELSE IF fault \/ Refuses(slack, resolved_channel)
       THEN Fails("slack_api_error", <<"conversations_kick">>)
       ELSE IF ~ InSeq(resolved_user, Joined(slack, resolved_channel))
       THEN /\ last' = call @@ [outcome |-> "returned", status |-> "not_in_channel",
                                requests |-> <<"conversations_kick">>]
            /\ UNCHANGED slack
       ELSE /\ slack' = Put(slack, resolved_channel,
                            [joined |-> SelectSeq(Joined(slack, resolved_channel),
                                                  LAMBDA member : member # resolved_user)]
                            @@ slack[resolved_channel])
            /\ last' = call @@ [outcome |-> "returned", status |-> "removed",
                                requests |-> <<"conversations_kick">>]

(***************************************************************************)
(* refresh_channels(force=True) statement by statement, as a caller that   *)
(* runs beside it meets it: nothing in provider.py or server.py holds a    *)
(* lock, so another tool call may read the maps between any two statements *)
(***************************************************************************)
Refreshing == last.op = "refreshing_channels"

\* what a caller beside the refresh has read of the maps: nothing yet
NothingRead == [made |-> FALSE, rows |-> <<>>, indexed |-> <<>>]

\* the call starts: channels_to_cache = []
refresh_channels_starts ==
    /\ ~ Refreshing
    /\ last' = [op |-> "refreshing_channels", types |-> ALL_CHANNEL_TYPES,
                todo |-> <<>>, assigned |-> FALSE, channels_to_cache |-> <<>>,
                before |-> [channels |-> channels, inv |-> channels_inv,
                            file |-> channels_cache],
                read |-> NothingRead,
                \* the page loop of the type at hand: the pages read, the
                \* channels on them, and whether a type took a second request
                cursor |-> 0, got |-> <<>>, paged |-> FALSE]
    /\ UNCHANGED <<users, users_inv, channels, channels_inv, users_ready,
                   channels_ready, users_cache, channels_cache, slack>>

\* channels = self._fetch_channels_by_type(channel_type), for the next type
refresh_channels_fetches ==
    /\ Refreshing /\ last.todo = <<>> /\ last.types # <<>>
    /\ last' = [last EXCEPT
                   !.todo = fetch_channels_by_type(slack, Head(last.types), MaxPageSize,
                                                   0, users),
                   !.types = Tail(last.types)]
    /\ UNCHANGED <<users, users_inv, channels, channels_inv, users_ready,
                   channels_ready, users_cache, channels_cache, slack>>

\* a page loop that starts over at the first page when the remote sends no
\* further cursor, instead of leaving the loop
refresh_channels_requests_over(page_size, fails) ==
    /\ Refreshing /\ last.todo = <<>> /\ last.types # <<>>
    /\ \E pages \in {Pages(Listing(slack, Head(last.types)), page_size)} :
       LET page == pages[last.cursor + 1]
           mapped == [i \in 1..Len(page) |-> map_channel(page[i], users)]
       IN last' = IF fails \/ Len(pages) = 1
                  THEN [last EXCEPT !.todo = IF fails THEN last.got
                                             ELSE last.got \o mapped,
                                    !.types = Tail(@), !.cursor = 0, !.got = <<>>]
                  ELSE IF last.cursor + 1 < Len(pages)
                  THEN [last EXCEPT !.cursor = @ + 1, !.got = @ \o mapped,
                                    !.paged = TRUE]
                  ELSE [last EXCEPT !.cursor = 0, !.got = <<>>]
    /\ UNCHANGED <<users, users_inv, channels, channels_inv, users_ready,
                   channels_ready, users_cache, channels_cache, slack>>

\* one turn of the loop of _fetch_channels_by_type: the request for the page
\* after the cursor, of page_size conversations; the loop is left when the
\* request raises SlackApiError or the answer carries no further cursor
refresh_channels_requests(page_size, fails) ==
    /\ Refreshing /\ last.todo = <<>> /\ last.types # <<>>
    /\ \E pages \in {Pages(Listing(slack, Head(last.types)), page_size)} :
       LET page == pages[last.cursor + 1]
           mapped == [i \in 1..Len(page) |-> map_channel(page[i], users)]
       IN last' = IF fails
                  THEN [last EXCEPT !.todo = last.got, !.types = Tail(@),
                                    !.cursor = 0, !.got = <<>>]
                  ELSE IF last.cursor + 1 < Len(pages)
                  THEN [last EXCEPT !.cursor = @ + 1, !.got = @ \o mapped,
                                    !.paged = TRUE]
                  ELSE [last EXCEPT !.todo = last.got \o mapped, !.types = Tail(@),
                                    !.cursor = 0, !.got = <<>>]
    /\ UNCHANGED <<users, users_inv, channels, channels_inv, users_ready,
                   channels_ready, users_cache, channels_cache, slack>>

\* self._channels[channel.id] = channel
refresh_channels_assigns ==
    /\ Refreshing /\ last.todo # <<>> /\ ~ last.assigned
    /\ channels' = Put(channels, Head(last.todo).id, Head(last.todo))
    /\ last' = [last EXCEPT !.assigned = TRUE]
    /\ UNCHANGED <<users, users_inv, channels_inv, users_ready, channels_ready,
                   users_cache, channels_cache, slack>>

\* a loop that writes the cache file after every record
refresh_channels_indexes_saving ==
    /\ Refreshing /\ last.todo # <<>> /\ last.assigned
    /\ channels_inv' = Put(channels_inv, Head(last.todo).name, Head(last.todo).id)
    /\ channels_cache' = JsonArray(Append(last.channels_to_cache,
                                          ChannelRecord(Head(last.todo))))
    /\ last' = [last EXCEPT
                   !.assigned = FALSE,
                   !.channels_to_cache = Append(@, ChannelRecord(Head(last.todo))),
                   !.todo = Tail(last.todo)]
    /\ UNCHANGED <<users, users_inv, channels, users_ready, channels_ready,
                   users_cache, slack>>

\* self._channels_inv[channel.name] = channel.id, and the record to cache
refresh_channels_indexes ==
    /\ Refreshing /\ last.todo # <<>> /\ last.assigned
    /\ channels_inv' = Put(channels_inv, Head(last.todo).name, Head(last.todo).id)
    /\ last' = [last EXCEPT
                   !.assigned = FALSE,
                   !.channels_to_cache = Append(@, ChannelRecord(Head(last.todo))),
                   !.todo = Tail(last.todo)]
    /\ UNCHANGED <<users, users_inv, channels, users_ready, channels_ready,
                   users_cache, channels_cache, slack>>

\* the file is written and the flag set: the call returns
refresh_channels_saves ==
    /\ Refreshing /\ last.todo = <<>> /\ last.types = <<>>
    /\ channels_cache' = JsonArray(last.channels_to_cache)
    /\ channels_ready' = TRUE
    /\ last' = [op |-> "refresh_channels", path |-> "fetch", raised |-> FALSE,
                corrupt |-> FALSE, before |-> last.before, read |-> last.read,
                paged |-> last.paged]
    /\ UNCHANGED <<users, users_inv, channels, channels_inv, users_ready,
                   users_cache, slack>>

\* the fetch is abandoned between two statements, by a cancellation or by an
\* exception that is no SlackApiError: the statements after it are not
\* executed, the writing of the file among them
refresh_channels_abandoned ==
    /\ Refreshing
    /\ last' = [op |-> "refresh_channels_abandoned", before |-> last.before,
                channels_to_cache |-> last.channels_to_cache]
    /\ UNCHANGED <<users, users_inv, channels, channels_inv, users_ready,
                   channels_ready, users_cache, channels_cache, slack>>

\* the fetch of refresh_users abandoned after n members were stored: the
\* file is opened for writing only after the loop
refresh_users_abandoned(answer, n) ==
    /\ UNCHANGED <<channels, channels_inv, channels_ready, channels_cache, slack,
                   users_ready, users_cache>>
    /\ \E loaded \in {read_users_cache(users_cache, users, users_inv)} :
       LET members == Head(answer.pages)
           stored == store_users(loaded.users, loaded.inv, SubSeq(members, 1, n))
       IN  /\ ~ (users_cache.kind # "absent" /\ loaded.ok)
           /\ loaded.error # "TypeError"
           /\ ~ answer.error
           /\ n \in 0..Len(members)
           /\ users' = stored.users
           /\ users_inv' = stored.inv
           /\ last' = [op |-> "refresh_users_abandoned", before |-> users_cache,
                       stored |-> n, members |-> members]

\* a channels_list call that runs while the refresh is between two statements:
\* the rows it answers with, and what the index holds for the names in them
channels_list_meanwhile(channel_types, sort, limit, cursor) ==
    /\ Refreshing
    /\ users_ready /\ channels_ready
    /\ \E rows \in {ListedRows(SortedById(get_channels_by_types(
                                   ListedTypes(channel_types))),
                               sort, limit, cursor)} :
          last' = [last EXCEPT
                      !.read = [made |-> TRUE, rows |-> rows,
                                indexed |-> [i \in 1..Len(rows) |->
                                                Get(channels_inv, rows[i].name)]]]
    /\ UNCHANGED <<users, users_inv, channels, channels_inv, users_ready,
                   channels_ready, users_cache, channels_cache, slack>>

(***************************************************************************)
(* Calls of the resolvers                                                  *)
(***************************************************************************)
\* a resolver that looks a missing user up remotely and caches it
resolve_user_call_fetching(user_ref) ==
    /\ users' = IF resolve_user(user_ref) = None
                THEN Put(users, user_ref, User(user_ref, <<>>, <<>>)) ELSE users
    /\ last' = [op |-> "resolve_user", ref |-> user_ref, ready |-> users_ready,
                result |-> resolve_user(user_ref), requests |-> <<>>]
    /\ UNCHANGED <<users_inv, channels, channels_inv, users_ready, channels_ready,
                   users_cache, channels_cache, slack>>

\* a call of SlackProvider.resolve_user: nothing is assigned, nothing requested
resolve_user_call(user_ref) ==
    /\ last' = [op |-> "resolve_user", ref |-> user_ref, ready |-> users_ready,
                result |-> resolve_user(user_ref), requests |-> <<>>]
    /\ UNCHANGED <<users, users_inv, channels, channels_inv, users_ready,
                   channels_ready, users_cache, channels_cache, slack>>

\* a call of SlackProvider.resolve_channel
resolve_channel_call(channel_ref) ==
    /\ last' = [op |-> "resolve_channel", ref |-> channel_ref, ready |-> channels_ready,
                result |-> resolve_channel(channel_ref), requests |-> <<>>]
    /\ UNCHANGED <<users, users_inv, channels, channels_inv, users_ready,
                   channels_ready, users_cache, channels_cache, slack>>

(***************************************************************************)
(* The environment: the remote workspace, the cache files, the process     *)
(***************************************************************************)
\* the conversations the workspace may hold under an id
ConversationsOf(id) ==
    IF id = ImId THEN {ImConversation(id, u) : u \in UserIds}
    ELSE IF id = MpimId
    THEN {MpimConversation(id, [i \in 1..MaxUsers |-> UserId(i)]),
          [c \in {"members"} |-> <<>>] @@ MpimConversation(id, <<>>)}
    ELSE {NamedConversation(id, n, p, OtherUser, <<>>) :
              n \in ChannelNames, p \in BOOLEAN}

\* a conversation is opened, created, renamed or converted in the workspace
slack_puts(id, conversation) ==
    /\ "name" \in DOMAIN conversation
          => \A other \in DOMAIN slack \ {id} :
                 Field(slack[other], "name", <<>>) # conversation.name
    /\ Get(slack, id) # conversation
    /\ slack' = Put(slack, id, conversation)
    /\ last' = [op |-> "slack"]
    /\ UNCHANGED <<users, users_inv, channels, channels_inv, users_ready,
                   channels_ready, users_cache, channels_cache>>

\* a conversation is archived: it is listed no more, its name stays taken
slack_archives(id) ==
    /\ id \in DOMAIN slack
    /\ ~ slack[id].is_archived
    /\ slack' = [slack EXCEPT ![id].is_archived = TRUE]
    /\ last' = [op |-> "slack"]
    /\ UNCHANGED <<users, users_inv, channels, channels_inv, users_ready,
                   channels_ready, users_cache, channels_cache>>

\* a conversation is deleted or closed: the workspace holds it no more
slack_deletes(id) ==
    /\ id \in DOMAIN slack
    /\ slack' = [other \in DOMAIN slack \ {id} |-> slack[other]]
    /\ last' = [op |-> "slack"]
    /\ UNCHANGED <<users, users_inv, channels, channels_inv, users_ready,
                   channels_ready, users_cache, channels_cache>>

\* the process ends and a new one starts: __init__ with the files as they are
restart ==
    /\ users' = EmptyDict
    /\ users_inv' = EmptyDict
    /\ channels' = EmptyDict
    /\ channels_inv' = EmptyDict
    /\ users_ready' = FALSE
    /\ channels_ready' = FALSE
    /\ last' = [op |-> "init"]
    /\ UNCHANGED <<users_cache, channels_cache, slack>>

\* the operator removes the users cache file to have the users fetched again
users_cache_removed ==
    /\ users_cache.kind # "absent"
    /\ users_cache' = AbsentFile
    /\ last' = [op |-> "files"]
    /\ UNCHANGED <<users, users_inv, channels, channels_inv, users_ready,
                   channels_ready, channels_cache, slack>>

\* a cache file is damaged, cut short or written by something else
users_cache_written(content) ==
    /\ users_cache # content
    /\ users_cache' = content
    /\ last' = [op |-> "files"]
    /\ UNCHANGED <<users, users_inv, channels, channels_inv, users_ready,
                   channels_ready, channels_cache, slack>>

channels_cache_written(content) ==
    /\ channels_cache # content
    /\ channels_cache' = content
    /\ last' = [op |-> "files"]
    /\ UNCHANGED <<users, users_inv, channels, channels_inv, users_ready,
                   channels_ready, users_cache, slack>>

Init ==
    /\ users = EmptyDict
    /\ users_inv = EmptyDict
    /\ channels = EmptyDict
    /\ channels_inv = EmptyDict
    /\ users_ready = FALSE
    /\ channels_ready = FALSE
    /\ users_cache = AbsentFile
    /\ channels_cache = AbsentFile
    /\ slack = EmptyDict
    /\ last = [op |-> "init"]

RefreshUsers == \E answer \in UsersListAnswers : refresh_users(answer)

\* at most one type of conversation fails to list
SingleErrorPlans ==
    {plan \in ErrorPlans : Cardinality({t \in DOMAIN plan : plan[t] # 0}) <= 1}

RefreshChannels ==
    \E force \in BOOLEAN, page_size \in 1..MaxPageSize, errors \in SingleErrorPlans :
        refresh_channels(force, page_size, errors)

SlackPuts(conversations) ==
    \E conversation \in conversations : slack_puts(conversation.id, conversation)

SlackArchives(ids) == \E id \in ids : slack_archives(id)

SlackDeletes(ids) == \E id \in ids : slack_deletes(id)

(* one user, the direct conversation with it and one public channel *)
FewUsersListAnswers ==
    {[error |-> e, pages |-> <<d>>] : e \in BOOLEAN, d \in UserListsOver({UserId(1)})}

RefreshFewUsers == \E answer \in FewUsersListAnswers : refresh_users(answer)

SomeConversations ==
    {ImConversation(ImId, UserId(1))} \cup
    {c \in ConversationsOf(NamedId(1)) : ~ c.is_private /\ c.name = <<"x">>}

SlackPutsSome == SlackPuts(SomeConversations)

SlackDeletesSome == SlackDeletes({c.id : c \in SomeConversations})

Next ==
    \/ RefreshFewUsers
    \/ RefreshChannels
    \/ SlackPutsSome
    \/ SlackDeletesSome
    \/ restart
    \/ users_cache_removed

Spec == Init /\ [][Next]_vars

(* the users cache alone *)
NextUsers ==
    \/ RefreshUsers
    \/ restart
    \/ users_cache_removed

SpecUsers == Init /\ [][NextUsers]_vars

(* the named channels alone *)
NamedConversations == UNION {ConversationsOf(id) : id \in NamedIds}

SlackPutsNamed == SlackPuts(NamedConversations)

SlackDeletesNamed == SlackDeletes(NamedIds)

NextNamed ==
    \/ RefreshChannels
    \/ SlackPutsNamed
    \/ SlackDeletesNamed
    \/ restart

SpecNamed == Init /\ [][NextNamed]_vars

(* one conversation of each type, and two public channels *)
KindsConversations ==
    {NamedConversation(NamedId(1), <<"x">>, FALSE, OtherUser, <<>>)} \cup
    {NamedConversation(NamedId(2), <<"y">>, p, OtherUser, <<>>) : p \in BOOLEAN} \cup
    {ImConversation(ImId, UserId(1))} \cup
    {MpimConversation(MpimId, <<UserId(1), UserId(2)>>)}

SlackPutsKinds == SlackPuts(KindsConversations)

SlackDeletesKinds == SlackDeletes({c.id : c \in KindsConversations})

\* at most two types of conversation fail to list
DoubleErrorPlans ==
    {plan \in ErrorPlans : Cardinality({t \in DOMAIN plan : plan[t] # 0}) <= 2}

RefreshChannelsAnyErrors ==
    \E force \in BOOLEAN, page_size \in 1..MaxPageSize, errors \in DoubleErrorPlans :
        refresh_channels(force, page_size, errors)

NextKinds ==
    \/ RefreshChannelsAnyErrors
    \/ SlackPutsKinds
    \/ SlackDeletesKinds
    \/ restart

SpecKinds == Init /\ [][NextKinds]_vars

(* channel creation: one name, channels of others, both tokens *)
CreateNames == {<<"x">>, <<"X">>}

Descriptions == {<<>>, <<"notes">>}

ChannelsCreate ==
    \E name \in CreateNames, description \in Descriptions, token_type \in {"bot", "user"},
       enabled \in BOOLEAN, faults \in Faults, page_size \in 1..MaxPageSize,
       errors \in {NoErrors, [NoErrors EXCEPT !["public_channel"] = 1]} :
        \* the inputs that the call does not come to read are left at their defaults
        /\ ~ enabled \/ name \notin {<<"x">>} =>
              /\ faults = NoFaults
              /\ errors = NoErrors /\ description = <<>> /\ page_size = 1
        /\ channels_create(name, FALSE, description, token_type, enabled, faults,
                           page_size, errors)

OthersConversations ==
    {NamedConversation(id, <<"x">>, FALSE, OtherUser, purpose) :
        id \in NamedIds, purpose \in {<<>>, MCP_MARKER}}

SlackPutsOthers ==
    \E conversation \in OthersConversations :
        /\ conversation.id \notin DOMAIN slack
        /\ slack_puts(conversation.id, conversation)

SlackArchivesNamed == SlackArchives(NamedIds)

RefreshChannelsAtStart ==
    \E page_size \in 1..MaxPageSize :
        refresh_channels(FALSE, page_size, NoErrors)

NextCreate ==
    \/ ChannelsCreate
    \/ RefreshChannelsAtStart
    \/ SlackPutsOthers
    \/ SlackArchivesNamed

SpecCreate == Init /\ [][NextCreate]_vars

(* damaged cache files: one user, the direct conversation with it and one   *)
(* public channel                                                          *)
DamagedUsersFiles ==
    {NotJson, JsonNumber, JsonObject(<<>>), JsonObject(<<<<"i", "d">>>>),
     JsonArray(<<JsonNonObject>>),
     JsonArray(<<[id |-> UserId(1)]>>),
     JsonArray(<<User(UserId(2), <<"a", "l">>, <<"Al">>), [name |-> <<"a", "l">>]>>)}

DamagedChannelsFiles ==
    {NotJson, JsonNumber, JsonObject(<<>>), JsonObject(<<<<"i", "d">>>>),
     JsonArray(<<JsonNonObject>>),
     JsonArray(<<[id |-> NamedId(1)]>>),
     JsonArray(<<ChannelRecord(map_channel(NamedConversation(NamedId(2), <<"y">>, FALSE,
                                                             OtherUser, <<>>),
                                           EmptyDict)),
                 [name |-> <<"#", "x">>]>>)}

UsersCacheDamaged == \E content \in DamagedUsersFiles : users_cache_written(content)

ChannelsCacheDamaged ==
    \E content \in DamagedChannelsFiles : channels_cache_written(content)

RefreshChannelsWhole ==
    \E force \in BOOLEAN : refresh_channels(force, MaxPageSize, NoErrors)

OneUserListAnswers ==
    {[error |-> e, pages |-> <<d>>] :
        e \in BOOLEAN, d \in {<<>>, <<User(UserId(1), <<"a", "l">>, <<"Al">>)>>}}

RefreshOneUser == \E answer \in OneUserListAnswers : refresh_users(answer)

OneChannel == {NamedConversation(NamedId(1), <<"x">>, FALSE, OtherUser, <<>>)}

SlackPutsOne == SlackPuts(OneChannel)

NextFiles ==
    \/ RefreshOneUser
    \/ RefreshChannelsWhole
    \/ SlackPutsOne
    \/ UsersCacheDamaged
    \/ ChannelsCacheDamaged
    \/ restart

SpecFiles == Init /\ [][NextFiles]_vars

(* listing the cached channels page by page *)
MaxLimit == 2

\* the conversations of the workspace, in the order in which they appear
ListedConversations ==
    <<NamedConversation(NamedId(1), <<"x">>, FALSE, OtherUser, <<>>),
      NamedConversation(NamedId(2), <<"y">>, TRUE, OtherUser, <<>>),
      ImConversation(ImId, UserId(1)),
      MpimConversation(MpimId, <<UserId(1), UserId(2)>>)>>

SlackPutsListed ==
    \E i \in 1..Len(ListedConversations) :
        /\ Cardinality(DOMAIN slack) = i - 1
        /\ slack_puts(ListedConversations[i].id, ListedConversations[i])

NoUsersAnswer == [error |-> FALSE, pages |-> <<<<>>>>]

RefreshUsersOnce ==
    /\ ~ users_ready
    /\ refresh_users(NoUsersAnswer)

RefreshChannelsForced == refresh_channels(TRUE, MaxPageSize, NoErrors)

ChannelTypesArguments ==
    {<<"p", "u", "b", "l", "i", "c", "_", "c", "h", "a", "n", "n", "e", "l">>,
     <<"i", "m", ",", "m", "p", "i", "m">>,
     <<"p", "u", "b", "l", "i", "c", "_", "c", "h", "a", "n", "n", "e", "l", ",", " ", "p", "r", "i", "v", "a", "t", "e", "_", "c", "h", "a", "n", "n", "e", "l", " ", ",", "i", "m", ",", "m", "p", "i", "m">>,
     <<"c", "h", "a", "n", "n", "e", "l", "s">>}

\* no cursor, the cursor of each channel, and texts that are no cursor of
\* any page: not base64, not UTF-8, an id beyond every channel
ListCursors ==
    {None, <<"C", "1">>, <<"/", "w", "=", "=">>, <<"S", "D", "E", "=">>} \cup
    {encode_cursor(id) : id \in NamedIds \cup {ImId, MpimId}}

ChannelsList ==
    \E channel_types \in ChannelTypesArguments, sort \in {"", "popularity"},
       limit \in 1..MaxLimit, cursor \in ListCursors :
        channels_list(channel_types, sort, limit, cursor, "bot")

NextList ==
    \/ RefreshUsersOnce
    \/ RefreshChannelsForced
    \/ SlackPutsListed
    \/ ChannelsList

SpecList == Init /\ [][NextList]_vars

(* reading the messages of one channel *)
Clock ==
    {[day |-> 20398, second |-> 0, microsecond |-> 0],
     [day |-> 20398, second |-> 86399, microsecond |-> 1]}

ThreadTs == <<"1", ".", "2">>

RemoteCursor == <<"bmV4dA==">>

PlainMessage == [ts |-> <<"1700000001.000100">>, user |-> UserId(1)]

JoinMessage ==
    [ts |-> <<"1700000002.000200">>, user |-> UserId(1), subtype |-> "channel_join"]

BotMessage ==
    [ts |-> <<"1700000003.000300">>, subtype |-> "bot_message", username |-> <<"bot">>,
     thread_ts |-> ThreadTs]

\* the answers of the remote to a request for a page of messages: an error,
\* or a page; has_more comes with a cursor
MessagesAnswers ==
    {[error |-> TRUE, messages |-> <<>>, has_more |-> FALSE, next_cursor |-> <<>>]} \cup
    {[error |-> FALSE, messages |-> m, has_more |-> TRUE, next_cursor |-> RemoteCursor] :
        m \in {<<PlainMessage>>, <<JoinMessage>>, <<PlainMessage, JoinMessage>>}} \cup
    {[error |-> FALSE, messages |-> m, has_more |-> FALSE, next_cursor |-> <<>>] :
        m \in {<<>>, <<JoinMessage>>, <<BotMessage>>}}

LimitArguments == {<<>>, <<"2">>, <<"1", "d">>, <<"a", "b", "c">>}

ChannelArguments == {<<"#", "x">>, <<"C", "9">>}

ConversationsHistory ==
    \E channel_id \in ChannelArguments, include_activity_messages \in BOOLEAN,
       cursor \in {None, RemoteCursor}, limit \in LimitArguments, now \in Clock,
       answer \in MessagesAnswers :
        \* the inputs that the call does not come to read are left at their defaults
        /\ channel_id \notin {<<"#", "x">>} =>
              /\ ~ include_activity_messages /\ cursor = None /\ limit = <<>>
              /\ now.second = 0 /\ answer.error
        /\ conversations_history(channel_id, include_activity_messages, cursor, limit,
                              "bot", now, answer)

ConversationsReplies ==
    \E channel_id \in ChannelArguments, thread_ts \in {ThreadTs, <<"1">>},
       include_activity_messages \in BOOLEAN,
       cursor \in {None, RemoteCursor}, limit \in LimitArguments, now \in Clock,
       answer \in MessagesAnswers :
        \* the inputs that the call does not come to read are left at their defaults
        /\ channel_id \notin {<<"#", "x">>} \/ thread_ts # ThreadTs =>
              /\ ~ include_activity_messages /\ cursor = None /\ limit = <<>>
              /\ now.second = 0 /\ answer.error
        /\ conversations_replies(channel_id, thread_ts, include_activity_messages, cursor,
                              limit, "bot", now, answer)

NextMessages ==
    \/ RefreshUsersOnce
    \/ RefreshChannelsForced
    \/ SlackPutsOne
    \/ ConversationsHistory
    \/ ConversationsReplies

SpecMessages == Init /\ [][NextMessages]_vars

(* the limit expression alone *)
LimitNumbers == {0, 1, 2, 3, 24, 1000000}

LimitUnits == {"d", "w", "m"}

\* numbers, durations, and texts that are neither
LimitTexts ==
    {str(n) : n \in LimitNumbers} \cup
    {str(n) \o <<unit>> : n \in LimitNumbers, unit \in LimitUnits} \cup
    {<<>>, <<"a", "b", "c">>, <<"1", "D">>, <<"2", "W">>, <<"1", "d", "<0a>">>,
     <<" ", "1">>, <<"d">>, <<"1", "x">>, <<"-", "1">>, <<"+", "1", "d">>,
     <<"1", ".", "5">>, <<"1", "d", "d">>, <<"1", " ", "d">>}

\* the first and the last microsecond of 1970-01-01 and of 2025-11-06, and
\* the microsecond after and before them
Clocks ==
    {[day |-> d, second |-> s, microsecond |-> u] :
        d \in {0, 20398}, s \in {0, 86399}, u \in {0, 999999}}

ParseLimit == \E limit \in LimitTexts, now \in Clocks : parse_limit(limit, now)

NextLimit == ParseLimit

SpecLimit == Init /\ [][NextLimit]_vars

(* searching page by page *)
MaxPages == 11

Match == [ts |-> <<"1700000001.000100">>, user |-> UserId(1), channel |-> <<"x">>]

SearchAnswers ==
    {[error |-> TRUE, page_count |-> 0, matches |-> <<>>]} \cup
    {[error |-> FALSE, page_count |-> n, matches |-> <<Match>>] : n \in {0, 1, MaxPages}}

\* the arguments of a search but cursor and limit
SearchArguments ==
    LET nothing == [search_query |-> None, filter_in_channel |-> None,
                    filter_in_im_or_mpim |-> None, filter_users_with |-> None,
                    filter_users_from |-> None, filter_date_before |-> None,
                    filter_date_after |-> None, filter_date_on |-> None,
                    filter_date_during |-> None, filter_threads_only |-> FALSE]
        date == <<"2025-11-06">>
    IN {nothing,
        [nothing EXCEPT !.search_query = <<"h", "i">>],
        [nothing EXCEPT !.search_query = <<"h", "i">>, !.filter_in_channel = <<"#", "x">>,
                        !.filter_threads_only = TRUE, !.filter_date_after = date,
                        !.filter_date_before = date],
        [nothing EXCEPT !.filter_in_im_or_mpim = <<"@", "a", "l">>,
                        !.filter_users_with = UserId(1), !.filter_users_from = UserId(1),
                        !.filter_date_on = date, !.filter_date_during = <<"july">>]}

\* cursors that no search produced: of a channel id, not UTF-8, nothing
\* after the prefix, no number after it, and numbers written otherwise
ForeignCursors ==
    {<<"Q", "z", "E", "=">>, <<"/", "w", "=", "=">>} \cup
    {encode_cursor(PagePrefix \o text) :
        text \in {<<>>, <<"x">>, <<"2", ":", "9">>, <<" ", "2">>, <<"-", "1">>, <<"0">>}} \cup
    {encode_cursor(<<"P", "a", "g", "e", ":", "2">>), encode_cursor(<<"p", "a", "g", "e">>)}

\* no cursor, the cursor of the result before, the cursor of a page, or a
\* foreign one
SearchCursors ==
    {None, page_cursor(1), page_cursor(MaxPages - 1)} \cup ForeignCursors \cup
    (IF last.op = "conversations_search_messages" /\ last.outcome = "returned"
        /\ CursorOf(last.rows) # <<>>
     THEN {CursorOf(last.rows)} ELSE {})

ConversationsSearchMessages ==
    \E a \in SearchArguments, cursor \in SearchCursors, answer \in SearchAnswers :
        conversations_search_messages(a.search_query, a.filter_in_channel,
                                      a.filter_in_im_or_mpim, a.filter_users_with,
                                      a.filter_users_from, a.filter_date_before,
                                      a.filter_date_after, a.filter_date_on,
                                      a.filter_date_during, a.filter_threads_only,
                                      cursor, 20, "user", answer)

NextSearch ==
    \/ RefreshOneUser
    \/ ConversationsSearchMessages

SpecSearch == Init /\ [][NextSearch]_vars

(* building the query of a search *)
Date == <<"2025-11-06">>

\* the date filters of a search: none, a day, a period, a range and its
\* ends, and a day or a period together with others
DateFilters ==
    LET none == [before |-> None, after |-> None, on |-> None, during |-> None]
    IN {none,
        [none EXCEPT !.on = Date],
        [none EXCEPT !.during = <<"july">>],
        [none EXCEPT !.after = Date],
        [none EXCEPT !.before = Date],
        [none EXCEPT !.after = Date, !.before = Date],
        [none EXCEPT !.during = <<"july">>, !.after = Date],
        [before |-> Date, after |-> Date, on |-> Date, during |-> <<"july">>]}

QueryFilters ==
    {[search_query |-> q, filter_in_channel |-> c, filter_in_im_or_mpim |-> i,
      filter_users_with |-> w, filter_users_from |-> f,
      filter_date_before |-> d.before, filter_date_after |-> d.after,
      filter_date_on |-> d.on, filter_date_during |-> d.during,
      filter_threads_only |-> t] :
        q \in {None, <<"h", "i">>}, c \in {None, NamedId(1)},
        i \in {None, <<"@", "a", "l">>}, w \in {None, UserId(1)},
        f \in {None, <<"@", "a", "l">>},
        d \in DateFilters,
        t \in BOOLEAN}

OneUserAnswer ==
    [error |-> FALSE, pages |-> <<<<User(UserId(1), <<"a", "l">>, <<"Al">>)>>>>]

OnePageAnswer == [error |-> FALSE, page_count |-> 1, matches |-> <<Match>>]

RefreshUsersWithOne ==
    /\ ~ users_ready
    /\ refresh_users(OneUserAnswer)

SearchWithFilters ==
    \* a search changes nothing it reads: one after another reaches nothing new
    /\ last.op # "conversations_search_messages"
    /\ \E a \in QueryFilters :
        conversations_search_messages(a.search_query, a.filter_in_channel,
                                      a.filter_in_im_or_mpim, a.filter_users_with,
                                      a.filter_users_from, a.filter_date_before,
                                      a.filter_date_after, a.filter_date_on,
                                      a.filter_date_during, a.filter_threads_only,
                                      None, 20, "user", OnePageAnswer)

NextQuery ==
    \/ RefreshUsersWithOne
    \/ SlackPutsOne
    \/ RefreshChannelsForced
    \/ SearchWithFilters

SpecQuery == Init /\ [][NextQuery]_vars

(* reads of caches that are loaded in part, fetched, or neither *)
\* cache files whose second record stops the load: it lacks "id", or it is
\* no object
PartialUsersFiles ==
    {JsonArray(<<User(UserId(2), <<"b", "o">>, <<"Bo">>), r>>) :
        r \in {[name |-> <<"a", "l">>], JsonNonObject}}

PartialChannelsFiles ==
    {JsonArray(<<ChannelRecord(map_channel(NamedConversation(NamedId(2), <<"y">>, FALSE,
                                                             OtherUser, <<>>),
                                           EmptyDict)), r>>) :
        r \in {[name |-> <<"#", "x">>], JsonNonObject}}

UsersCachePartial == \E content \in PartialUsersFiles : users_cache_written(content)

ChannelsCachePartial == \E content \in PartialChannelsFiles : channels_cache_written(content)

ResolveUser ==
    \E user_ref \in {UserId(1), UserId(2), <<"@", "a", "l">>} : resolve_user_call(user_ref)

ResolveChannel ==
    \E channel_ref \in {NamedId(1), NamedId(2), <<"#", "x">>} :
        resolve_channel_call(channel_ref)

ChannelsListed ==
    channels_list(<<"p", "u", "b", "l", "i", "c", "_", "c", "h", "a", "n", "n", "e", "l">>,
                  "", MaxLimit, None, "bot")

NextReads ==
    \/ RefreshOneUser
    \/ RefreshChannelsWhole
    \/ SlackPutsOne
    \/ UsersCachePartial
    \/ ChannelsCachePartial
    \/ restart
    \/ ResolveUser
    \/ ResolveChannel
    \/ ChannelsListed

SpecReads == Init /\ [][NextReads]_vars

(* direct conversations reloaded from the file under other users *)
DirectConversations ==
    {ImConversation(ImId, UserId(1)), MpimConversation(MpimId, <<UserId(1), UserId(2)>>)}

SlackPutsDirect == SlackPuts(DirectConversations)

NextReload ==
    \/ RefreshOneUser
    \/ RefreshChannelsWhole
    \/ SlackPutsDirect
    \/ restart
    \/ users_cache_removed

SpecReload == Init /\ [][NextReload]_vars

(* the list of the add-message setting: two channels, posts of every kind *)
AddMessageSettings ==
    {<<>>, <<"1">>, <<"t", "r", "u", "e">>, <<"T", "r", "u", "e">>, <<",">>,
     <<"C", "1">>, <<"C", "2">>, <<"C", "2", ",", " ", "C", "1", ",">>,
     <<"C", "2", ",", "!", "C", "1">>,
     <<"!", "C", "1">>, <<"!", "C", "2", ",", "!", "C", "1">>,
     <<"!", "C", "2", ",", "C", "1">>, <<"!", "!", "C", "1">>}

TwoChannels ==
    {NamedConversation(NamedId(1), <<"x">>, FALSE, OtherUser, <<>>),
     NamedConversation(NamedId(2), <<"y">>, FALSE, OtherUser, <<>>)}

SlackPutsTwo ==
    \E conversation \in TwoChannels :
        /\ conversation.id \notin DOMAIN slack
        /\ slack_puts(conversation.id, conversation)

PolicyChannelRefs == {NamedId(1), <<"#", "y">>, <<"C", "9">>}

AddMessage ==
    \E channel_id \in PolicyChannelRefs, thread_ts \in {None, <<"17">>, ThreadTs},
       content_type \in {MarkdownText, PlainText, <<"text/html">>},
       tool_config \in AddMessageSettings, mark_config \in {<<>>, <<"1">>},
       fault \in {"none", "post", "mark", "history"} :
        \* the inputs that the call does not come to read are left at their defaults
        /\ tool_config # <<"1">> \/ channel_id # NamedId(1) =>
              /\ thread_ts = None /\ content_type = MarkdownText
              /\ mark_config = <<>> /\ fault = "none"
        /\ conversations_add_message(channel_id, <<"hi">>, thread_ts, content_type, "bot",
                                     tool_config, mark_config, fault)

NextPost ==
    \/ RefreshChannelsForced
    \/ SlackPutsTwo
    \/ AddMessage

SpecPost == Init /\ [][NextPost]_vars

(* what configuration disables: posting, creating, inviting, removing *)
ManagementSettings ==
    {<<>>, <<"1">>, <<"T", "r", "u", "e">>, <<"y", "e", "s">>, <<"n", "o">>}

PostUnderSetting ==
    \E channel_id \in {NamedId(1), NamedId(2)},
       tool_config \in {<<>>, <<"1">>, <<"C", "1">>, <<"!", "C", "1">>},
       fault \in {"none", "post"} :
        /\ tool_config = <<>> => fault = "none"
        /\ conversations_add_message(channel_id, <<"hi">>, None, MarkdownText, "bot",
                                     tool_config, <<>>, fault)

CreateUnderSetting ==
    \E config \in ManagementSettings :
        channels_create(<<"y">>, FALSE, <<>>, "bot", is_channel_management_enabled(config),
                        NoFaults, MaxPageSize, NoErrors)

InviteUnderSetting ==
    \E config \in ManagementSettings :
        channels_invite_users(NamedId(1), UserId(1), "bot", config, 0)

RemoveUnderSetting ==
    \E config \in ManagementSettings :
        channels_remove_user(NamedId(1), UserId(1), "bot", config, FALSE)

SlackPutsFirst ==
    \E conversation \in OneChannel :
        /\ conversation.id \notin DOMAIN slack
        /\ slack_puts(conversation.id, conversation)

NextPolicy ==
    \/ RefreshOneUser
    \/ RefreshChannelsForced
    \/ SlackPutsFirst
    \/ PostUnderSetting
    \/ CreateUnderSetting
    \/ InviteUnderSetting
    \/ RemoveUnderSetting

SpecPolicy == Init /\ [][NextPolicy]_vars


(* invitations: two users, one channel, the remote failing at some turn *)
TwoUsers ==
    <<User(UserId(1), <<"a", "l">>, <<"Al">>), User(UserId(2), <<"b", "o">>, <<"Bo">>)>>

TwoUsersAnswer == [error |-> FALSE, pages |-> <<TwoUsers>>]

RefreshTwoUsers == refresh_users(TwoUsersAnswer)

InviteLists ==
    {UserId(1), UserId(2),
     UserId(1) \o <<",">> \o UserId(2), UserId(2) \o <<",", " ">> \o UserId(1),
     UserId(1) \o <<",">> \o UserId(1), <<"@", "a", "l", ",">> \o UserId(1),
     <<",", " ">>, UserId(1) \o <<",", "U", "9">>}

ChannelsInviteUsers ==
    \E channel_id \in {NamedId(1), <<"#", "x">>, <<"#", "w">>}, user_ids \in InviteLists,
       fault_at \in 0..2 :
        channels_invite_users(channel_id, user_ids, "bot", <<"1">>, fault_at)

ChannelsRemoveUser ==
    \E user \in {UserId(1), <<"@", "b", "o">>, <<"U", "9">>}, fault \in BOOLEAN :
        channels_remove_user(NamedId(1), user, "bot", <<"1">>, fault)

SlackArchivesFirst == slack_archives(NamedId(1))

NextInvite ==
    \/ RefreshTwoUsers
    \/ RefreshChannelsForced
    \/ SlackPutsFirst
    \/ SlackArchivesFirst
    \/ ChannelsInviteUsers
    \/ ChannelsRemoveUser

SpecInvite == Init /\ [][NextInvite]_vars

(* a forced refresh of the channels beside a caller that lists them *)
SlackPutsBetween == ~ Refreshing /\ SlackPutsTwo

RefreshUsersBetween == ~ Refreshing /\ RefreshOneUser

SlackDeletesBetween == ~ Refreshing /\ SlackDeletes({NamedId(1), NamedId(2)})

ChannelsListMeanwhile ==
    \E limit \in {1, 20} : channels_list_meanwhile(<<>>, <<>>, limit, None)

NextConcurrent ==
    \/ RefreshUsersBetween
    \/ SlackPutsBetween
    \/ SlackDeletesBetween
    \/ refresh_channels_starts
    \/ refresh_channels_fetches
    \/ refresh_channels_assigns
    \/ refresh_channels_indexes
    \/ refresh_channels_saves
    \/ ChannelsListMeanwhile

SpecConcurrent == Init /\ [][NextConcurrent]_vars

(* a fetch that is abandoned part-way *)
RefreshTwoUsersBetween == ~ Refreshing /\ RefreshTwoUsers

RefreshUsersAbandoned ==
    /\ ~ Refreshing
    /\ \E n \in 0..MaxUsers : refresh_users_abandoned(TwoUsersAnswer, n)

UsersCacheRemovedBetween == ~ Refreshing /\ users_cache_removed

NextAbandon ==
    \/ SlackPutsBetween
    \/ SlackDeletesBetween
    \/ RefreshTwoUsersBetween
    \/ RefreshUsersAbandoned
    \/ UsersCacheRemovedBetween
    \/ refresh_channels_starts
    \/ refresh_channels_fetches
    \/ refresh_channels_assigns
    \/ refresh_channels_indexes
    \/ refresh_channels_saves
    \/ refresh_channels_abandoned

SpecAbandon == Init /\ [][NextAbandon]_vars

(* two channels_create calls for one name beside each other *)
ChannelsCreateBegin == \E name \in {<<"x">>, <<"y">>} : channels_create_begins(name, "bot")

ChannelsCreateLooks == \E i \in Invocations : channels_create_looks(i)

ChannelsCreateCreates == \E i \in Invocations : channels_create_creates(i)

ChannelsCreateSetsPurpose == \E i \in Invocations : channels_create_sets_purpose(i)

ChannelsCreateRefreshes == \E i \in Invocations : channels_create_refreshes(i)

ChannelsCreateChecks == \E i \in Invocations : channels_create_checks(i)

SlackDeletesBeforeCreate == ~ Creating /\ SlackDeletes({NamedId(1), NamedId(2)})

SlackPutsBeforeCreate == ~ Creating /\ SlackPutsOthers

NextTwoCreate ==
    \/ ChannelsCreateBegin
    \/ ChannelsCreateLooks
    \/ ChannelsCreateCreates
    \/ ChannelsCreateSetsPurpose
    \/ ChannelsCreateRefreshes
    \/ ChannelsCreateChecks
    \/ SlackDeletesBeforeCreate
    \/ SlackPutsBeforeCreate

SpecTwoCreate == Init /\ [][NextTwoCreate]_vars

(* listing the cached channels under any limit *)
ListLimits == ((0 - MaxLimit)..MaxLimit) \cup {MaxListed + 1}

ChannelsListAnyLimit ==
    \E limit \in ListLimits, sort \in {"", "popularity"},
       cursor \in {None, encode_cursor(NamedId(1)), encode_cursor(NamedId(2))} :
        channels_list(<<>>, sort, limit, cursor, "bot")

NextListLimits ==
    \/ RefreshUsersOnce
    \/ RefreshChannelsForced
    \/ SlackPutsTwo
    \/ ChannelsListAnyLimit

SpecListLimits == Init /\ [][NextListLimits]_vars

(* the fetch of the channels page by page, one conversation to the page *)
RefreshChannelsRequests == \E fails \in BOOLEAN : refresh_channels_requests(1, fails)

FetchStep ==
    \/ RefreshChannelsRequests
    \/ refresh_channels_assigns
    \/ refresh_channels_indexes
    \/ refresh_channels_saves

NextPaging ==
    \/ SlackPutsBetween
    \/ SlackDeletesBetween
    \/ refresh_channels_starts
    \/ RefreshChannelsRequests
    \/ refresh_channels_assigns
    \/ refresh_channels_indexes
    \/ refresh_channels_saves

SpecPaging == Init /\ [][NextPaging]_vars

\* the method runs on once it was called: no step of it waits for anything
\* but the answer of the remote
SpecPagingFair == SpecPaging /\ WF_vars(FetchStep)

(***************************************************************************)
(* Properties                                                              *)
(***************************************************************************)
ReadAsName(text) ==
    /\ Strip(text) = text
    /\ ~ StartsWith(text, <<"U">>)
    /\ ~ StartsWith(text, <<"<", "@">>)
    /\ ~ StartsWith(text, <<"@">>)

\* C1 as claimed: every cached user is resolved by its handle, bare and
\* with "@", whatever the handle.
C1_EveryHandleResolves ==
    \A id \in DOMAIN users :
        /\ resolve_user(users[id].name) = id
        /\ resolve_user(<<"@">> \o users[id].name) = id

\* C1 amended: the handle of every cached user, written with "@", resolves
\* to a cached user, the one last written to the reverse index under that
\* handle (the user itself when that is the one); the bare handle resolves
\* to the same unless it begins with "U", "<@" or "@", and a bare handle
\* that begins with "U" is read as an ID.
C1_HandleResolvesToLastWritten ==
    \A id \in DOMAIN users :
        LET handle == users[id].name IN
        /\ RStripChar(handle, " ") = handle =>
              /\ resolve_user(<<"@">> \o handle) \in DOMAIN users
              /\ Get(users_inv, handle) = id => resolve_user(<<"@">> \o handle) = id
        /\ ReadAsName(handle) =>
              /\ resolve_user(handle) \in DOMAIN users
              /\ Get(users_inv, handle) = id => resolve_user(handle) = id
        /\ StartsWith(handle, <<"U">>) /\ Strip(handle) = handle =>
              resolve_user(handle) = IF handle \in DOMAIN users THEN handle ELSE None

\* two cached users share a handle that is read as a name
C1_Witness ==
    /\ last.op = "refresh_users"
    /\ \E a, b \in DOMAIN users :
          /\ a # b
          /\ users[a].name = users[b].name
          /\ ReadAsName(users[a].name)
          /\ resolve_user(users[a].name) = a
          /\ resolve_user(<<"@">> \o users[b].name) = a

\* C10 as claimed: a fetch that met no remote error leaves every entity the
\* remote lists, on all of its pages, in the in-memory cache and in the
\* cache file, for users and for channels.
C10_FetchCachesAllPages ==
    /\ last.op = "refresh_users" /\ last.path = "fetch" /\ ~ last.raised =>
          \A i \in 1..Len(last.listed) :
              /\ last.listed[i].id \in DOMAIN users
              /\ users[last.listed[i].id] = last.listed[i]
              /\ \E j \in 1..Len(users_cache.recs) : users_cache.recs[j] = last.listed[i]
    /\ last.op = "refresh_channels" /\ last.path = "fetch" /\ last.failed = {} =>
          \A t \in DOMAIN last.answered :
              \A i \in 1..Len(Listing(slack, t)) :
                  LET channel == map_channel(Listing(slack, t)[i], users) IN
                  /\ channel.id \in DOMAIN channels
                  /\ channels[channel.id] = channel
                  /\ \E j \in 1..Len(channels_cache.recs) :
                        channels_cache.recs[j] = ChannelRecord(channel)

IsNamed(channel) == ~ channel.is_im /\ ~ channel.is_mpim

\* C2 as claimed: every cached public or private channel has a name that
\* starts with "#" and that resolve_channel resolves to the channel's ID.
C2_NamedChannelsResolve ==
    \A id \in DOMAIN channels :
        IsNamed(channels[id]) =>
            /\ StartsWith(channels[id].name, <<"#">>)
            /\ resolve_channel(channels[id].name) = id

\* C3 as claimed: every cached direct-message channel is named "@" + the
\* handle of its counterpart when that user is cached, "@" + the
\* counterpart's ID when it is not.
C3_DirectChannelsNamedAfterCounterpart ==
    \A id \in DOMAIN channels :
        channels[id].is_im =>
            channels[id].name =
                IF channels[id].user \in DOMAIN users
                THEN <<"@">> \o users[channels[id].user].name
                ELSE <<"@">> \o channels[id].user

UnknownUserId == <<"U", "9">>

UnknownChannelId == <<"C", "9">>

CandidateUserIds == UserIds \cup {UnknownUserId}

CandidateChannelIds == NamedIds \cup {ImId, MpimId, UnknownChannelId}

Mention(id) == <<"<", "@">> \o id \o <<">">>

Padded(text) == <<" ">> \o text \o <<" ">>

UserRefs ==
    LET texts == CandidateUserIds \cup Handles \cup {<<>>}
        base == texts \cup {Mention(t) : t \in texts} \cup {<<"@">> \o t : t \in texts}
    IN base \cup {Padded(t) : t \in base}

ChannelRefs ==
    LET texts == CandidateChannelIds \cup CandidateUserIds \cup Handles
                    \cup ChannelNames \cup {MpimName, <<>>}
        base == texts \cup {Mention(t) : t \in texts} \cup {<<"@">> \o t : t \in texts}
                    \cup {<<"#">> \o t : t \in texts}
    IN base \cup {Padded(t) : t \in base}

\* C4: resolve_user and resolve_channel return nothing or a key of the
\* forward map; an ID, bare, padded or as a mention, that is not cached
\* resolves to nothing.
C4_ResolveReturnsCachedIdOrNothing ==
    /\ \A ref \in UserRefs : resolve_user(ref) \in DOMAIN users \cup {None}
    /\ \A ref \in ChannelRefs : resolve_channel(ref) \in DOMAIN channels \cup {None}
    /\ \A id \in CandidateUserIds \ DOMAIN users :
          \A ref \in {id, Padded(id), Mention(id), Padded(Mention(id))} :
              resolve_user(ref) = None
    /\ \A id \in CandidateChannelIds \ DOMAIN channels :
          \A ref \in {id, Padded(id), Mention(id), Padded(Mention(id))} :
              resolve_channel(ref) = None

\* names resolve to cached IDs while an ID of either type is not cached
C4_Witness ==
    /\ \E ref \in UserRefs : StartsWith(ref, <<"@">>) /\ resolve_user(ref) \in DOMAIN users
    /\ \E ref \in ChannelRefs :
          StartsWith(ref, <<"#">>) /\ resolve_channel(ref) \in DOMAIN channels
    /\ ImId \notin DOMAIN channels
    /\ resolve_channel(Padded(ImId)) = None
    /\ resolve_user(Mention(UserId(1))) = UserId(1)

\* the channels the last fetch obtained: of every type, the conversations on
\* the pages answered before a request raised
Obtained ==
    UNION {{map_channel(Listing(slack, t)[i], users) : i \in 1..last.answered[t]} :
              t \in DOMAIN last.answered}

Fetched == last.op = "refresh_channels" /\ last.path = "fetch"

\* C5 as claimed: after a refresh that fetched, the forward map and the
\* reverse index hold exactly the channels that refresh obtained.
C5_RefreshReplaces ==
    Fetched =>
        /\ {channels[id] : id \in DOMAIN channels} = Obtained
        /\ DOMAIN channels_inv = {channel.name : channel \in Obtained}
        /\ \A name \in DOMAIN channels_inv :
              \E channel \in Obtained :
                  channel.name = name /\ channel.id = channels_inv[name]

\* C6 as claimed: every entry of a reverse index names an entity of the
\* forward map whose display key is the entry's key, and the display key of
\* every entity of a forward map is in the reverse index.
C6_ReverseIndexDerivable ==
    /\ \A key \in DOMAIN users_inv :
          users_inv[key] \in DOMAIN users /\ users[users_inv[key]].name = key
    /\ \A id \in DOMAIN users : users[id].name \in DOMAIN users_inv
    /\ \A key \in DOMAIN channels_inv :
          /\ channels_inv[key] \in DOMAIN channels
          /\ channels[channels_inv[key]].name = key
    /\ \A id \in DOMAIN channels : channels[id].name \in DOMAIN channels_inv

\* C9: after a refresh that fetched, whatever requests raised, the
\* conversations on the pages answered before the error and all those of the
\* types that did not fail are in the forward map and in the cache file, the
\* ready flag is set and the call has not raised.
C9_PartialRefresh ==
    Fetched =>
        /\ channels_ready
        /\ ~ last.raised
        /\ channels_cache.kind = "array"
        /\ \A t \in DOMAIN last.answered :
              /\ t \notin last.failed => last.answered[t] = Len(Listing(slack, t))
              /\ \A i \in 1..last.answered[t] :
                    LET channel == map_channel(Listing(slack, t)[i], users) IN
                    /\ channel.id \in DOMAIN channels
                    /\ channels[channel.id] = channel
                    /\ \E j \in 1..Len(channels_cache.recs) :
                          channels_cache.recs[j] = ChannelRecord(channel)

\* listing the public channels raised on its second request: the first page
\* is kept, and so are the direct and the group conversations
C9_Witness ==
    /\ Fetched
    /\ last.failed = {"public_channel"}
    /\ last.answered["public_channel"] > 0
    /\ last.answered["im"] > 0
    /\ last.answered["mpim"] > 0
    /\ Cardinality(DOMAIN channels) = 3

CleanCreate(call) == call.op = "channels_create" /\ call.clean

\* C7 as claimed: channels_create called again with the name of a channel
\* that the call before created and marked returns that channel's ID with
\* is_new = false and sends no create request, whichever token the calls use.
C7_SecondCreateReturnsSameChannel ==
    /\ CleanCreate(last)
    /\ CleanCreate(last.previous)
    /\ last.previous.name = last.name
    /\ last.previous.created # None
    => /\ last.outcome = "returned"
       /\ last.info.channelID = last.previous.created
       /\ ~ last.info.is_new
       /\ \A i \in 1..Len(last.requests) : last.requests[i] # "conversations_create"

NotOwned(conversation) ==
    \/ Field(conversation, "creator", <<>>) # user_id
    \/ ~ Contains(Field(conversation, "purpose", <<>>), MCP_MARKER)

\* C8: when channels_create finds the channel of the name, in the cache or
\* after name_taken and a forced refresh, and the channel is not owned, the
\* call fails with the not-managed conflict, returns no channel info, sends
\* no set-purpose request and leaves the channel as it was.
C8_ForeignChannelIsConflict ==
    /\ last.op = "channels_create"
    /\ "found" \in DOMAIN last
    /\ last.looked_up
    /\ NotOwned(last.before)
    => /\ last.outcome = "not_managed"
       /\ "info" \notin DOMAIN last
       /\ \A i \in 1..Len(last.requests) : last.requests[i] # "conversations_setPurpose"
       /\ last.found \in DOMAIN slack
       /\ slack[last.found] = last.before

\* the channel of another instance, its purpose marked, was created after
\* the cache was filled: the create request is answered name_taken, the
\* channel is found after the refresh and the call ends in the conflict
C8_Witness ==
    /\ last.op = "channels_create"
    /\ last.outcome = "not_managed"
    /\ last.requests = <<"conversations_create">>
    /\ last.before.creator = OtherUser
    /\ Contains(last.before.purpose, MCP_MARKER)

\* C11: whenever refresh_users or refresh_channels finds a cache file that is
\* not valid JSON, not an array of objects, or holds an object without
\* "id" or "name", the call does not raise because of the file and goes on
\* to fetch from the remote.
C11_CorruptCacheFallsBackToFetch ==
    /\ last.op \in {"refresh_users", "refresh_channels"}
    /\ last.corrupt
    => last.path = "fetch"

\* C12: right after a refresh has fetched and written a cache file, loading
\* that file into an empty provider that has the same user cache yields the
\* id -> entity map that is in memory, field for field (channels and users).
C12_CacheFileRoundTrip ==
    /\ last.op = "refresh_channels" /\ last.path = "fetch" =>
          read_channels_cache(channels_cache, EmptyDict, EmptyDict, users).channels
              = channels
    /\ last.op = "refresh_users" /\ last.path = "fetch" /\ ~ last.raised =>
          read_users_cache(users_cache, EmptyDict, EmptyDict).users = users

\* the ids of the cached channels a channel_types argument selects, in order
MatchingIds(channel_types) ==
    LET all_channels == SortedById(get_channels_by_types(ListedTypes(channel_types)))
    IN [i \in 1..Len(all_channels) |-> all_channels[i].id]

Listed == last.op = "channels_list" /\ last.outcome = "returned"

\* C13 as claimed: in a walk of channels_list (a call without cursor, then
\* calls that pass the cursor of the call before, whatever the page sizes,
\* the cache and the type filter unchanged) the rows returned so far are the
\* first matching channels in ascending id order, each once; a page with a
\* cursor is not the last and has rows, a page without cursor completes the
\* list.
C13_WalkListsAllInIdOrder ==
    Listed /\ last.walking =>
        LET matching == MatchingIds(last.channel_types) IN
        /\ Len(last.walked) <= Len(matching)
        /\ last.walked = SubSeq(matching, 1, Len(last.walked))
        /\ CursorOf(last.rows) = <<>> => last.walked = matching
        /\ CursorOf(last.rows) # <<>> => Len(last.walked) < Len(matching)
        /\ last.rows = <<>> => matching = <<>>

\* C13 as amended: the walk returns every matching channel once, page after
\* page along the ids, and ends with a page without cursor; the rows of a
\* page are in ascending id order unless sort is "popularity", and then by
\* falling member count, rows of equal count in id order.
C13_WalkListsAllOnce ==
    Listed /\ last.walking =>
        LET matching == MatchingIds(last.channel_types)
            n == Len(last.walked)
            page == [i \in 1..Len(last.rows) |-> last.rows[i].id]
        IN
        /\ n <= Len(matching)
        /\ {last.walked[i] : i \in 1..n} = {matching[i] : i \in 1..n}
        /\ CursorOf(last.rows) = <<>> => n = Len(matching)
        /\ CursorOf(last.rows) # <<>> => n < Len(matching)
        /\ last.rows = <<>> => matching = <<>>
        /\ page = SubSeq(last.walked, n - Len(page) + 1, n)
        /\ last.sort # "popularity" => page = SubSeq(matching, n - Len(page) + 1, n)
        /\ last.sort = "popularity" =>
              \A i, j \in 1..Len(page) :
                  i < j => \/ last.rows[i].memberCount > last.rows[j].memberCount
                           \/ /\ last.rows[i].memberCount = last.rows[j].memberCount
                              /\ Greater(page[j], page[i])

\* a walk of three pages or more, of different sizes, that has ended and
\* in which a page sorted by popularity is not in id order
C13_Witness ==
    /\ Listed /\ last.walking
    /\ last.cursor # None
    /\ CursorOf(last.rows) = <<>>
    /\ Len(last.walked) >= 3
    /\ Cardinality(last.limits) >= 2
    /\ last.walked # MatchingIds(last.channel_types)

\* C17: when channels_list is given a cursor that decodes, its rows are the
\* matching channels that follow the first one with an id greater than the
\* decoded cursor: every row has a greater id, the first row is the first
\* such channel, and the page is empty when no matching channel has one.
C17_PageStartsAfterCursor ==
    Listed /\ last.cursor # None /\ last.cursor # <<>> /\ decode_cursor(last.cursor).ok =>
        LET decoded == decode_cursor(last.cursor).text
            matching == MatchingIds(last.channel_types)
            greater == SelectSeq(matching, LAMBDA id : Greater(id, decoded))
        IN
        /\ \A i \in 1..Len(last.rows) : Greater(last.rows[i].id, decoded)
        /\ greater = <<>> => last.rows = <<>>
        /\ greater # <<>> => \E i \in 1..Len(last.rows) : last.rows[i].id = Head(greater)

\* C18: a call of conversations_history or conversations_replies that is
\* given a cursor does not parse the limit; its remote request carries the
\* cursor, no oldest, no latest and the default count, whatever the limit.
C18_CursorSuppressesLimit ==
    /\ last.op \in {"conversations_history", "conversations_replies"}
    /\ Truthy(last.cursor)
    /\ last.outcome \notin {"not_found", "invalid_thread_ts"}
    => /\ last.outcome # "invalid_limit"
       /\ Len(last.requests) = 1
       /\ last.requests[1].params.cursor = last.cursor
       /\ last.requests[1].params.limit = 100
       /\ "oldest" \notin DOMAIN last.requests[1].params
       /\ "latest" \notin DOMAIN last.requests[1].params

\* the whole seconds a timestamp text writes
SecondsOf(ts) == int(SubSeq(ts, 1, Len(ts) - 7)).value

\* the days a duration of n units reaches back from the start of today
DaysBack(n, unit) == IF unit = "d" THEN n - 1 ELSE IF unit = "w" THEN 7 * n - 1 ELSE 30 * n

IsNumberText(text) == text # <<>> /\ \A i \in 1..Len(text) : IsDigit(text[i])

IsDurationText(text) ==
    /\ Len(text) >= 2
    /\ text[Len(text)] \in {"d", "w", "m"}
    /\ IsNumberText(SubSeq(text, 1, Len(text) - 1))

NumberOf(text) == DecimalValue(SelectSeq(text, IsDigit))

\* what the call returns for a duration of n units
ReturnsDuration(n, unit) ==
    /\ last.result.raised = ""
    /\ last.result.count = 100
    /\ last.result.latest = timestamp(last.now.day * SecondsPerDay + last.now.second)
    /\ last.result.oldest = timestamp((last.now.day - DaysBack(n, unit)) * SecondsPerDay)

C20_OtherLimitsAreInvalid ==
    LET valid(text) == \/ IsNumberText(text) /\ NumberOf(text) >= 1
                       \/ IsDurationText(text)
    IN /\ last.op = "parse_limit_expression" /\ ~ valid(last.limit)
          => last.result.raised = "ValueError"
       /\ /\ last.op \in {"conversations_history", "conversations_replies"}
          /\ last.outcome \notin {"not_found", "invalid_thread_ts"}
          /\ ~ Truthy(last.cursor) /\ ~ valid(last.limit)
          => last.outcome = "invalid_limit" /\ last.raised = "ValueError"
             /\ last.requests = <<>>

\* C14: in the result of a paginated read a cursor appears only on the last
\* row and only when further results exist, and when further results exist
\* the last row carries a non-empty cursor: a result whose last row has no
\* cursor, an empty result among them, means that there are no more pages.
C14_CursorIffMore ==
    /\ last.op \in {"conversations_history", "conversations_replies",
                    "conversations_search_messages"}
       /\ last.outcome = "returned"
       => /\ \A i \in 1..(Len(last.rows) - 1) : last.rows[i].cursor = <<>>
          /\ CursorOf(last.rows) # <<>> <=> last.more
    /\ Listed
       => /\ \A i \in 1..(Len(last.rows) - 1) : last.rows[i].cursor = <<>>
          /\ CursorOf(last.rows) # <<>> =>
                \E c \in get_channels_by_types(ListedTypes(last.channel_types)) :
                    \A i \in 1..Len(last.rows) : Greater(c.id, last.rows[i].id)

Searched == last.op = "conversations_search_messages" /\ last.outcome # "no_query"

\* a text that decodes to "page:" and a number
IsPageCursor(cursor) ==
    LET decoded == decode_cursor(cursor)
    IN /\ decoded.ok
       /\ StartsWith(decoded.text, PagePrefix)
       /\ IsNumberText(SubSeq(decoded.text, Len(PagePrefix) + 1, Len(decoded.text)))

\* C15: a search that is given a cursor which does not decode, or whose
\* decoded text is not "page:" and a number, fails with an invalid-cursor
\* error before any remote request; it is never treated as page 1.
C15_ForeignCursorIsInvalid ==
    Searched /\ Truthy(last.cursor) /\ ~ IsPageCursor(last.cursor)
    => last.outcome = "invalid_cursor" /\ last.requests = <<>>

\* C16: the cursor that a search attaches for the next page N decodes to
\* exactly N, and the search that is called with this cursor asks the
\* remote for page N.
C16_PageCursorRoundTrip ==
    /\ Searched /\ last.outcome = "returned" /\ CursorOf(last.rows) # <<>>
       => /\ last.page >= 1
          /\ page_of_cursor(CursorOf(last.rows)) = [raised |-> FALSE, page |-> last.page + 1]
    /\ Searched /\ last.continues
       => /\ last.outcome \in {"returned", "slack_api_error"}
          /\ Len(last.requests) = 1
          /\ last.requests[1].params.page = last.next_page

\* a search continued up to a page of two digits that is not the last
C16_Witness ==
    /\ Searched /\ last.continues /\ last.outcome = "returned"
    /\ last.page = 10
    /\ last.requests[1].params.page = 10
    /\ page_of_cursor(CursorOf(last.rows)) = [raised |-> FALSE, page |-> 11]

\* the parts of the query that the filters of the last search ask for, the
\* channel searched in being written as name
QueryParts(name) ==
    LET f == last.filters
        Part(present, text) == IF present THEN <<text>> ELSE <<>>
        Resolves(ref) == Truthy(ref) /\ resolve_user(ref) # None
        date == IF Truthy(f.filter_date_on) THEN <<<<"o", "n", ":">> \o f.filter_date_on>>
                ELSE IF Truthy(f.filter_date_during)
                THEN <<<<"d", "u", "r", "i", "n", "g", ":">> \o f.filter_date_during>>
                ELSE Part(Truthy(f.filter_date_after),
                          <<"a", "f", "t", "e", "r", ":">> \o f.filter_date_after)
                     \o Part(Truthy(f.filter_date_before),
                             <<"b", "e", "f", "o", "r", "e", ":">> \o f.filter_date_before)
    IN Part(Truthy(f.search_query), f.search_query)
       \o Part(f.filter_threads_only, <<"i", "s", ":", "t", "h", "r", "e", "a", "d">>)
       \o Part(Truthy(f.filter_in_channel), <<"i", "n", ":">> \o name)
       \o Part(Truthy(f.filter_in_im_or_mpim),
               <<"i", "n", ":">> \o (IF Resolves(f.filter_in_im_or_mpim)
                                     THEN Mention(resolve_user(f.filter_in_im_or_mpim))
                                     ELSE f.filter_in_im_or_mpim))
       \o Part(Resolves(f.filter_users_with),
               <<"w", "i", "t", "h", ":">> \o Mention(resolve_user(f.filter_users_with)))
       \o Part(Resolves(f.filter_users_from),
               <<"f", "r", "o", "m", ":">> \o Mention(resolve_user(f.filter_users_from)))
       \o date

\* the names a channel filter may be written as: that of a cached channel
\* or the text given, without "#"
ChannelNamesFor(filter_in_channel) ==
    {LStripChar(filter_in_channel, "#")} \cup
    {LStripChar(channels[id].name, "#") : id \in DOMAIN channels}

\* C21: the query of a search is its parts joined by spaces in the order
\* free text, is:thread, in:channel, in:user, with:user, from:user, date
\* part; the date part is on: or else during: when one is given, otherwise
\* after: and before: as supplied; with: and from: appear only for a user
\* reference that resolves.
C21_QueryInFixedOrder ==
    last.op = "conversations_search_messages" =>
        \E name \in ChannelNamesFor(last.filters.filter_in_channel) :
            last.query = Join(QueryParts(name), <<" ">>)

\* a search with every kind of part but during:, users and channel resolved
C21_Witness ==
    /\ last.op = "conversations_search_messages"
    /\ last.outcome = "returned"
    /\ last.query = <<"h", "i", " ", "i", "s", ":", "t", "h", "r", "e", "a", "d", " ",
                      "i", "n", ":", "x", " ", "i", "n", ":", "<", "@", "U", "1", ">", " ",
                      "w", "i", "t", "h", ":", "<", "@", "U", "1", ">", " ",
                      "f", "r", "o", "m", ":", "<", "@", "U", "1", ">", " ",
                      "o", "n", ":", "2025-11-06">>
    /\ last.filters.filter_date_during # None
    /\ last.requests[1].params.query = last.query

\* a filter that was supplied
Supplied(f) ==
    IF f = "filter_threads_only" THEN last.filters[f] ELSE Truthy(last.filters[f])

\* C22: a search fails as invalid, without a remote request, exactly when
\* its query is empty, that is when no filter at all was supplied.
C22_NoFilterIsInvalid ==
    last.op = "conversations_search_messages" =>
        /\ last.outcome = "no_query" <=> last.query = <<>>
        /\ last.outcome = "no_query" => last.requests = <<>>
        /\ last.query = <<>> <=> \A f \in DOMAIN last.filters : ~ Supplied(f)

\* C22 (amended): a search fails as invalid, without a remote request,
\* exactly when its query is empty, that is when nothing was supplied but
\* with: or from: references that do not resolve.
C22_NoPartIsInvalid ==
    last.op = "conversations_search_messages" =>
        /\ last.outcome = "no_query" <=> last.query = <<>>
        /\ last.outcome = "no_query" => last.requests = <<>>
        /\ last.query = <<>> <=>
              /\ \A f \in DOMAIN last.filters \ {"filter_users_with", "filter_users_from"} :
                     ~ Supplied(f)
              /\ \A f \in {"filter_users_with", "filter_users_from"} :
                     Supplied(f) => resolve_user(last.filters[f]) = None

\* a search with a with: filter alone that does not resolve, and one with
\* no filter at all
C22_Witness ==
    /\ last.op = "conversations_search_messages"
    /\ last.outcome = "no_query"
    /\ last.requests = <<>>
    /\ last.filters.filter_users_with = UserId(1)
    /\ UserId(1) \notin DOMAIN users

\* C23: while the ready flag of an entity type is false, a read of it
\* returns no data of that type's cache; it fails as not ready.
C23_ReadyGatesReads ==
    /\ last.op \in {"resolve_user", "resolve_channel"} /\ ~ last.ready
       => last.result = None
    /\ last.op = "channels_list" /\ ~ (users_ready /\ channels_ready)
       => last.outcome = "not_ready"

\* C24: once the ready flag of an entity type is true it stays true in
\* every later state of the process, also after a refresh of that type that
\* fails, and what the cache held is still served.
C24_ReadinessIsMonotonic ==
    [][last'.op # "init" =>
          /\ users_ready => users_ready' /\ DOMAIN users \subseteq DOMAIN users'
                            /\ DOMAIN users_inv \subseteq DOMAIN users_inv'
          /\ channels_ready => channels_ready' /\ DOMAIN channels \subseteq DOMAIN channels'
                               /\ DOMAIN channels_inv \subseteq DOMAIN channels_inv']_vars

\* a refresh of ready users fails and a cached user is resolved after it
C24_Witness ==
    /\ last.op = "resolve_user"
    /\ last.ready
    /\ last.result = UserId(1)
    /\ users_cache \in PartialUsersFiles
    /\ UserId(2) \in DOMAIN users

\* C25: a call of resolve_user or resolve_channel leaves the maps, the
\* ready flags and the cache files as they are and makes no remote
\* request, whether the reference resolves or not.
C25_ResolversArePure ==
    [][last'.op \in {"resolve_user", "resolve_channel"} =>
          /\ UNCHANGED <<users, users_inv, channels, channels_inv, users_ready,
                         channels_ready, users_cache, channels_cache, slack>>
          /\ last'.requests = <<>>]_vars

\* a reference that the workspace holds and the cache does not stays
\* unresolved
C25_Witness ==
    /\ last.op = "resolve_channel"
    /\ last.result = None
    /\ last.ref \in DOMAIN slack
    /\ last.ref \notin DOMAIN channels
    /\ channels_ready

\* what the materializer computes under the users cached now for the
\* conversation that a record of the cache file was written for
Rematerialized(rec) ==
    map_channel([id |-> rec.id, name_normalized |-> Tail(rec.name), is_im |-> rec.im,
                 is_mpim |-> rec.mpim, is_private |-> rec.private, user |-> rec.user,
                 members |-> rec.members, num_members |-> rec.memberCount], users)

\* C26: after a load of the channels cache file every direct and every
\* group-direct channel of the file has the name and the purpose that the
\* materializer computes from the users cached now, not those of the file.
C26_DirectChannelsRematerialized ==
    last.op = "refresh_channels" /\ last.path = "disk" /\ ~ last.raised
    => \A i \in 1..Len(channels_cache.recs) :
           LET rec == channels_cache.recs[i] IN
           rec.im \/ rec.mpim
           => /\ channels[rec.id].name = Rematerialized(rec).name
              /\ channels[rec.id].purpose = Rematerialized(rec).purpose

(***************************************************************************)
(* Configuration: what it disables, the channels it allows                 *)
(***************************************************************************)
Mutating ==
    {"chat_postMessage", "conversations_create", "conversations_setPurpose",
     "conversations_invite", "conversations_kick"}

\* what the list of the add-message setting says of a channel: on an
\* allow-list it is an item, on a deny-list no item is it behind "!"
ListAllows(channel, config) ==
    LET items == AllowItems(config)
    IN IF Head(Head(items)) = "!"
       THEN channel \notin {LStripChar(items[i], "!") : i \in 1..Len(items)}
       ELSE channel \in {items[i] : i \in 1..Len(items)}

IsList(config) ==
    /\ config \notin {<<>>, <<"1">>, <<"t", "r", "u", "e">>}
    /\ AllowItems(config) # <<>>

PolicyError == {"disabled", "not_allowed"}

\* C27: an operation that configuration disables issues no mutating request
\* and fails with a policy error: conversations_add_message when the setting
\* is unset or its list does not allow the resolved channel, channels_create,
\* channels_invite_users and channels_remove_user when channel management is
\* not enabled
C27_DisabledIssuesNoRequest ==
    /\ last.op = "conversations_add_message"
       /\ \/ last.tool_config = <<>>
          \/ /\ last.resolved_channel # None /\ IsList(last.tool_config)
             /\ ~ ListAllows(last.resolved_channel, last.tool_config)
       => /\ \A i \in 1..Len(last.requests) : last.requests[i] \notin Mutating
          /\ last.outcome \in PolicyError
    /\ last.op = "channels_create" /\ ~ last.enabled
       => last.requests = <<>> /\ last.outcome = "disabled"
    /\ last.op \in {"channels_invite_users", "channels_remove_user"}
       /\ lower(last.config) \notin {<<"t", "r", "u", "e">>, <<"1">>, <<"y", "e", "s">>}
       => last.requests = <<>> /\ last.outcome = "disabled"

\* a post refused for the channel that was created, which the list does not
\* allow, in a workspace where a user was invited to the other channel
C27_Witness ==
    /\ last.op = "conversations_add_message"
    /\ last.outcome = "not_allowed"
    /\ last.resolved_channel = NamedId(2)
    /\ InSeq(UserId(1), Joined(slack, NamedId(1)))

\* C30: with a list for add-message setting, a post to a cached channel gets
\* past the policy exactly when the list allows the channel: on an allow-list
\* when the ID is an item, on a deny-list when no item is "!" and the ID
C30_ListDecidesPosting ==
    last.op = "conversations_add_message" /\ last.resolved_channel # None
    /\ IsList(last.tool_config)
    => (last.outcome # "not_allowed"
           <=> ListAllows(last.resolved_channel, last.tool_config))

\* a deny-list of two items refuses a post to a channel that one of them names
C30_Witness ==
    /\ last.op = "conversations_add_message"
    /\ last.outcome = "not_allowed"
    /\ last.resolved_channel = NamedId(1)
    /\ Len(AllowItems(last.tool_config)) = 2
    /\ Head(last.tool_config) = "!"

(***************************************************************************)
(* Invitations                                                             *)
(***************************************************************************)
Invited == last.op = "channels_invite_users" /\ last.requests # <<>>

\* the remote answers every request of the call with success or with
\* already_in_channel
OnlyMembershipAnswers == last.fault_at \notin 1..Len(last.user_id_list) /\ ~ last.refused

\* C29: a user who is a member already goes to already_members, does not make
\* the call fail and keeps no later user from being invited, and every
\* resolved user of a call that returns is in exactly one of invited_users
\* and already_members
C29_InviteIsIdempotent ==
    Invited =>
        /\ OnlyMembershipAnswers =>
              /\ last.outcome = "returned"
              /\ \A i \in 1..Len(last.user_id_list) :
                     LET user == last.user_id_list[i] IN
                     /\ InSeq(user, last.joined) => InSeq(user, last.already_members)
                     /\ ~ InSeq(user, last.joined) => InSeq(user, last.invited_users)
                     /\ InSeq(user, Joined(slack, last.resolved_channel))
        /\ last.outcome = "returned" =>
              \A i \in 1..Len(last.user_id_list) :
                  LET user == last.user_id_list[i] IN
                  InSeq(user, last.invited_users) # InSeq(user, last.already_members)

\* the first part alone: members go to already_members, the others are invited
C29_MembersAreSkipped ==
    Invited /\ OnlyMembershipAnswers =>
        /\ last.outcome = "returned"
        /\ \A i \in 1..Len(last.user_id_list) :
               LET user == last.user_id_list[i] IN
               /\ InSeq(user, last.joined) => InSeq(user, last.already_members)
               /\ ~ InSeq(user, last.joined) => InSeq(user, last.invited_users)
               /\ InSeq(user, Joined(slack, last.resolved_channel))

\* a member listed before a user who is not one
C29_MemberThenOther ==
    /\ Invited /\ last.outcome = "returned"
    /\ last.already_members = <<UserId(2)>>
    /\ last.invited_users = <<UserId(1)>>

(***************************************************************************)
(* Concurrent callers                                                      *)
(***************************************************************************)
\* the maps the running refresh leaves when it returns
AfterRefresh ==
    store_channels(last.before.channels, last.before.inv,
                   Flatten([i \in 1..Len(ALL_CHANNEL_TYPES) |->
                               fetch_channels_by_type(slack, ALL_CHANNEL_TYPES[i],
                                                      MaxPageSize, 0, users)]))

\* the public and private channels of a forward map
NamedIn(chs) == {id \in DOMAIN chs : ~ chs[id].is_im /\ ~ chs[id].is_mpim}

\* C28: a caller that lists the channels while a refresh of them runs is
\* answered with the channels of the maps before the refresh or with those of
\* the maps after it, and the reverse index holds the name of every channel
\* it lists
C28_ReaderSeesWholeMaps ==
    Refreshing /\ last.read.made =>
        LET listed == {last.read.rows[i].id : i \in 1..Len(last.read.rows)} IN
        /\ Len(last.read.rows) < 20 =>
              listed \in {NamedIn(last.before.channels), NamedIn(AfterRefresh.channels)}
        /\ \A i \in 1..Len(last.read.rows) :
               last.read.indexed[i] = last.read.rows[i].id

\* the records the last refresh of the users wrote to the maps, in the order
\* it wrote them: the records of the cache file, which a load reads and a
\* fetch writes
WrittenUsers ==
    IF last.op = "refresh_users" /\ ~ last.raised /\ users_cache.kind = "array"
    THEN users_cache.recs ELSE <<>>

\* records i and j of the refresh share a handle, and j is the last one
\* written under it
LastOfShared(i, j) ==
    /\ i < j
    /\ WrittenUsers[i].name = WrittenUsers[j].name
    /\ WrittenUsers[i].id # WrittenUsers[j].id
    /\ \A k \in (j + 1)..Len(WrittenUsers) :
           WrittenUsers[k].name # WrittenUsers[j].name

\* C31 as claimed: when two cached users share a handle, resolve_user of the
\* handle returns the ID of the one written last, both stay in the forward
\* map and each resolves by its own ID, whatever the handle.
C31_LastWriteWins ==
    \A i, j \in 1..Len(WrittenUsers) :
        LastOfShared(i, j) =>
            /\ resolve_user(WrittenUsers[j].name) = WrittenUsers[j].id
            /\ {WrittenUsers[i].id, WrittenUsers[j].id} \subseteq DOMAIN users
            /\ resolve_user(WrittenUsers[i].id) = WrittenUsers[i].id
            /\ resolve_user(WrittenUsers[j].id) = WrittenUsers[j].id

\* C31 amended: when two cached users share a handle, the handle written
\* with "@" resolves to the ID of the one written last, and so does the bare
\* handle unless it begins with "U", "<@" or "@" (a bare handle that begins
\* with "U" is read as an ID); both users stay in the forward map and each
\* resolves by its own ID.
C31_LastWriteWinsByName ==
    \A i, j \in 1..Len(WrittenUsers) :
        LastOfShared(i, j) =>
            LET handle == WrittenUsers[j].name IN
            /\ RStripChar(handle, " ") = handle =>
                  resolve_user(<<"@">> \o handle) = WrittenUsers[j].id
            /\ ReadAsName(handle) => resolve_user(handle) = WrittenUsers[j].id
            /\ StartsWith(handle, <<"U">>) /\ Strip(handle) = handle =>
                  resolve_user(handle) = IF handle \in DOMAIN users THEN handle ELSE None
            /\ {WrittenUsers[i].id, WrittenUsers[j].id} \subseteq DOMAIN users
            /\ users[WrittenUsers[i].id].name = handle
            /\ users[WrittenUsers[j].id].name = handle
            /\ resolve_user(WrittenUsers[i].id) = WrittenUsers[i].id
            /\ resolve_user(WrittenUsers[j].id) = WrittenUsers[j].id

\* a fetch wrote two users under one handle that is read as a name, and the
\* handle resolves to the second of them
C31_Witness ==
    /\ last.op = "refresh_users" /\ last.path = "fetch" /\ ~ last.raised
    /\ \E i, j \in 1..Len(WrittenUsers) :
          /\ LastOfShared(i, j)
          /\ ReadAsName(WrittenUsers[j].name)
          /\ resolve_user(WrittenUsers[j].name) = WrittenUsers[j].id
          /\ resolve_user(<<"@">> \o WrittenUsers[i].name) = WrittenUsers[j].id
          /\ resolve_user(WrittenUsers[i].id) = WrittenUsers[i].id

\* C32: a fetch that is abandoned before it completes persists nothing: as
\* long as the fetch loop of refresh_channels runs, and after it was
\* abandoned, the channels cache file is the one from before the refresh;
\* after an abandoned fetch of the users the users cache file is the one from
\* before the refresh.
C32_AbandonedFetchKeepsFile ==
    /\ Refreshing => channels_cache = last.before.file
    /\ last.op = "refresh_channels_abandoned" => channels_cache = last.before.file
    /\ last.op = "refresh_users_abandoned" => users_cache = last.before

\* a refresh of the channels that had a record to cache was abandoned, the
\* maps hold a channel that the file of an earlier refresh does not; or a
\* fetch of the users was abandoned after one of two members, which the map
\* holds while there is no file
C32_Witness ==
    \/ /\ last.op = "refresh_channels_abandoned"
       /\ last.channels_to_cache # <<>>
       /\ channels_cache.kind = "array"
       /\ \E id \in DOMAIN channels :
              \A i \in 1..Len(channels_cache.recs) : channels_cache.recs[i].id # id
    \/ /\ last.op = "refresh_users_abandoned"
       /\ last.stored = 1 /\ Len(last.members) = 2
       /\ last.members[1].id \in DOMAIN users
       /\ users_cache.kind = "absent"

\* C33 as claimed: after channels_create returned with is_new true, the
\* channel cache holds the new channel: resolve_channel("#" + name) is the
\* returned channel ID, and the cache file has a record of that channel.
C33_CreatedChannelIsCached ==
    last.op = "channels_create" /\ last.outcome = "returned" /\ last.info.is_new =>
        /\ resolve_channel(<<"#">> \o last.name) = last.info.channelID
        /\ channels_cache.kind = "array"
        /\ \E i \in 1..Len(channels_cache.recs) :
               channels_cache.recs[i].id = last.info.channelID

\* the call before this one created a channel remotely and failed at a
\* later step, and this call, of the same identity and for the same name,
\* meets no failure of the remote
RetryAfterCreated ==
    /\ last.op = "channels_create" /\ last.clean
    /\ last.previous.op = "channels_create"
    /\ last.previous.name = last.name
    /\ last.previous.token_type = last.token_type
    /\ last.previous.outcome = "slack_api_error"
    /\ last.previous.requests = <<"conversations_create", "conversations_setPurpose">>

\* C34 as claimed: a channel that a channels_create call created remotely
\* before it failed at a later step is recognised as owned by a retry with
\* the same name: the retry returns the ID of that channel with is_new false.
C34_RetryRecognisesCreated ==
    RetryAfterCreated =>
        /\ last.outcome = "returned"
        /\ ~ last.info.is_new
        /\ last.info.channelID \in DOMAIN slack
        /\ slack[last.info.channelID].name = last.name

\* both calls have returned or raised
BothDone == Creating /\ \A i \in Invocations : last.calls[i].pc = "done"

\* C35 as claimed: when two channels_create calls of one identity for the
\* same new name interleave, at most one remote create succeeds and both
\* calls return the same channel ID, one with is_new true and the other with
\* is_new false; neither fails as not managed.
C35_BothCallsReturnTheChannel ==
    /\ Creating /\ last.fresh => Len(last.created) <= 1
    /\ BothDone /\ last.fresh =>
          /\ \A i \in Invocations : last.calls[i].outcome = "returned"
          /\ last.calls[1].channel_id = last.calls[2].channel_id
          /\ last.calls[1].is_new # last.calls[2].is_new

\* C36 as claimed: channels_list returns at most min(limit, 999) rows for
\* every integer limit, and no rows at all when limit <= 0.
C36_RowsWithinLimit ==
    last.op = "channels_list" /\ last.outcome = "returned" =>
        /\ last.limit > 0 =>
              Len(last.rows) <= (IF last.limit < MaxListed THEN last.limit
                                 ELSE MaxListed)
        /\ last.limit <= 0 => last.rows = <<>>

\* the references of a comma-separated list, trimmed, the empty ones left out
TrimmedRefs(user_refs) ==
    SelectSeq([i \in 1..Len(Split(user_refs, ",")) |-> Strip(Split(user_refs, ",")[i])],
              LAMBDA ref : ref # <<>>)

\* the call names a channel that does not resolve, a user that does not
\* resolve, or no user at all
InvalidInvite ==
    /\ last.op = "channels_invite_users"
    /\ \/ resolve_channel(last.channel_id) = None
       \/ TrimmedRefs(last.user_ids) = <<>>
       \/ \E i \in 1..Len(TrimmedRefs(last.user_ids)) :
              resolve_user(TrimmedRefs(last.user_ids)[i]) = None

\* C37: channels_invite_users validates before it acts: when the channel
\* reference or one of the user references does not resolve, or no user
\* reference remains after trimming, the call fails, no invite request was
\* sent for any user, and the members of the channel are as before.
C37_InviteValidatesFirst ==
    InvalidInvite =>
        /\ last.outcome \in {"disabled", "channel_not_found", "users_not_resolved",
                             "no_users"}
        /\ last.requests = <<>>
        /\ Truthy(last.resolved_channel) =>
               Joined(slack, last.resolved_channel) = last.joined

\* a list whose first user resolves and is no member of the channel, which
\* the workspace has, and whose second user does not resolve: the call failed
C37_Witness ==
    /\ InvalidInvite
    /\ last.outcome = "users_not_resolved"
    /\ Len(TrimmedRefs(last.user_ids)) = 2
    /\ resolve_user(TrimmedRefs(last.user_ids)[1]) # None
    /\ last.resolved_channel \in DOMAIN slack
    /\ ~ last.refused
    /\ ~ InSeq(resolve_user(TrimmedRefs(last.user_ids)[1]), last.joined)

\* C38: a fetch-based refresh_channels terminates: once it has started, the
\* page loops of the four types come to an end (at a page without further
\* cursor or at a remote error), and the call ends with the cache file
\* written and the ready flag set.
C38_FetchTerminates ==
    Refreshing ~> (/\ last.op = "refresh_channels" /\ ~ last.raised
                   /\ channels_ready
                   /\ channels_cache.kind = "array")

\* a refresh that took more than one request for a type has ended, with two
\* channels in the file it wrote
C38_Witness ==
    /\ last.op = "refresh_channels" /\ last.paged
    /\ channels_ready
    /\ channels_cache.kind = "array" /\ Len(channels_cache.recs) = 2

\* the step is a refresh that found its cache file damaged and fetched
FellBack(call, op) ==
    call.op = op /\ call.corrupt /\ call.path = "fetch" /\ ~ call.raised

\* C39 as claimed: a refresh that gives up loading a cache file part-way and
\* falls back to the fetch leaves the maps as a fetch without a cache file
\* leaves them: nothing read from the rejected file stays in the forward map
\* or the reverse index unless the fetch returned it too.
C39_FallbackEqualsFetch ==
    [][/\ FellBack(last', "refresh_users") =>
              /\ users' = store_users(users, users_inv, users_cache'.recs).users
              /\ users_inv' = store_users(users, users_inv, users_cache'.recs).inv
       /\ FellBack(last', "refresh_channels") =>
              /\ channels' = RefreshedChannels(slack, TRUE, MaxPageSize, NoErrors).channels
              /\ channels_inv' = RefreshedChannels(slack, TRUE, MaxPageSize, NoErrors).inv
      ]_vars

====
